---- MODULE Spec2Model ----
(***************************************************************************)
(* CryptoMath core: the validating structure hierarchy                     *)
(* Groupoid -> Semigroup -> Monoid -> Group, subgroups, normal subgroups,  *)
(* cosets / Lagrange's theorem and factor groups, over T = int.            *)
(*                                                                         *)
(* A Set<T> is a std::set<T>: iteration is in ascending order, begin() is  *)
(* the least element.  A throw is modelled by the message it carries (for  *)
(* constructors) or by a negative sentinel value (for T-valued queries).   *)
(***************************************************************************)
EXTENDS Integers, FiniteSets, Sequences, TLC

\* ------------------------------------------------------------------ bounds
\* Element values are 0 .. MaxVal-1.
MaxVal == 6

Val == 0 .. (MaxVal - 1)

\* Exponents handed to Group::power and satisfies_exponent are -MaxExp .. MaxExp.
MaxExp == 6

\* Arguments of the EulerFunction queries are 0 .. MaxN.
MaxN == 48

\* ----------------------------------------------------------- thrown values
\* std::domain_error / std::runtime_error thrown by a T-valued query.
DomainError == -1
RuntimeError == -2
\* std::logic_error thrown by a T-valued query.
LogicError == -3
\* std::logic_error("Element not found in any coset"), a Set<T>-valued query.
LogicErrorSet == {-3}
\* std::domain_error("Invalid cosets"), a Set<T>-valued query.
DomainErrorSet == {-1}

\* constructor messages
ErrNotClosed == "Operation is not closed: result not in set"
ErrNotAssociative == "Operation must be associative for semigroup"
ErrIdentityNotInSet == "Identity element must be in the set"
ErrNotLeftIdentity == "Element does not satisfy left identity property"
ErrNotRightIdentity == "Element does not satisfy right identity property"
ErrInverseNotInSet == "Inverse element not in the set"
ErrInverseRight == "Inverse does not satisfy a o a^-1 = e"
ErrInverseLeft == "Inverse does not satisfy a^-1 o a = e"
ErrNoIdentity == "Semigroup has no identity element"
ErrNotAllInvertible == "Not all elements are invertible; monoid is not a group"
ErrNotSubgroup == "Subset does not satisfy subgroup criterion"
ErrNotNormalSubgroup == "Subgroup is not normal"
ErrNotNormalSubset == "Subset does not form a normal subgroup"
ErrElementNotInGroup == "Element not in group"
ErrElementsNotInGroupoid == "Elements not in groupoid"
\* query messages
ErrClosureDetected == "Closure violation detected"
ErrNotInCayleyTable == "Elements not in Cayley table"
ErrInvalidCosets == "Invalid cosets"
ErrNotInAnyCoset == "Element not found in any coset"
ErrNoIdentityElement == "No identity element found"

\* the error taxonomy the messages belong to
ErrorKind(msg) ==
    CASE msg = "" -> "Ok"
      [] msg = ErrNotClosed -> "ClosureViolation"
      [] msg = ErrNotAssociative -> "NotAssociative"
      [] msg \in {ErrIdentityNotInSet, ErrNotLeftIdentity, ErrNotRightIdentity} -> "InvalidIdentity"
      [] msg \in {ErrInverseNotInSet, ErrInverseRight, ErrInverseLeft} -> "InvalidInverse"
      [] msg = ErrNoIdentity -> "NoIdentityFound"
      [] msg = ErrNotAllInvertible -> "InvalidInverse"
      [] msg = ErrNotSubgroup -> "NotASubgroup"
      [] msg \in {ErrNotNormalSubgroup, ErrNotNormalSubset} -> "NotNormal"
      [] msg \in {ErrElementNotInGroup, ErrElementsNotInGroupoid,
                  ErrNotInCayleyTable, ErrInvalidCosets} -> "ElementNotInDomain"
      [] msg = ErrClosureDetected -> "ClosureViolation"
      [] msg = ErrNoIdentityElement -> "NoIdentityFound"
      [] OTHER -> "Unknown"

\* --------------------------------------------------------------- std::set
\* *s.begin(): the least element of a non-empty std::set<int>.
Begin(S) == CHOOSE x \in S : \A y \in S : x <= y

\* ------------------------------------------------- caller-supplied inputs
\* Binary operations over int, as tables on Val x Val.
AddMod(n) == [a \in Val, b \in Val |-> (a + b) % n]
MulMod(n) == [a \in Val, b \in Val |-> (a * b) % n]
SubMod(n) == [a \in Val, b \in Val |-> (a + n * MaxVal - b) % n]
AddShift(n) == [a \in Val, b \in Val |-> (a + b + 1) % n]
LeftProj == [a \in Val, b \in Val |-> a]
RightProj == [a \in Val, b \in Val |-> b]
MaxOp == [a \in Val, b \in Val |-> IF a >= b THEN a ELSE b]
\* closed, and associative on every triple but (2, 2, 1)
OneBadTriple == [a \in Val, b \in Val |-> IF a = 2 /\ b = 1 THEN 1 ELSE 0]
\* the dihedral group of order 2m on k = i + m*j  (rotation i, reflection j)
Dihedral(m) ==
    [a \in Val, b \in Val |->
        LET i1 == a % m
            j1 == (a \div m) % 2
            i2 == b % m
            j2 == (b \div m) % 2
        IN  ((i1 + (IF j1 = 0 THEN i2 ELSE m - i2)) % m) + m * ((j1 + j2) % 2)]

Operations ==
    {AddMod(n) : n \in 1 .. MaxVal} \cup {MulMod(n) : n \in 1 .. MaxVal}
    \cup {SubMod(n) : n \in 1 .. MaxVal} \cup {AddShift(n) : n \in 1 .. MaxVal}
    \cup {LeftProj, RightProj, MaxOp, OneBadTriple}
    \cup {Dihedral(m) : m \in 1 .. (MaxVal \div 2)}

\* Carriers: intervals starting at 0 or 1 (the empty set included) and the
\* multiples of d.
Carriers ==
    {lo .. hi : lo \in 0 .. 1, hi \in 0 .. (MaxVal - 1)}
    \cup {{x \in Val : x % d = 0} : d \in 1 .. MaxVal}
    \cup {{}}

\* Inverse functions handed to Group's constructor.
NegMod(n) == [a \in Val |-> (n * MaxVal - a) % n]
NegShift(n) == [a \in Val |-> (n * MaxVal + 2 * n - 2 - a) % n]
IdFn == [a \in Val |-> a]
ConstFn(c) == [a \in Val |-> c]
\* the inverse read off the table: the least two-sided inverse, a itself if none
TableInverse(S, f, e) ==
    [a \in Val |->
        LET invs == {b \in S : f[a, b] = e /\ f[b, a] = e}
        IN  IF invs = {} THEN a ELSE Begin(invs)]

InverseFunctions(S, f, e) ==
    {NegMod(n) : n \in 1 .. MaxVal}
    \cup {NegShift(MaxVal), ConstFn(e), ConstFn(MaxVal - 1), IdFn, TableInverse(S, f, e)}

\* ---------------------------------------------------------------- Groupoid
NoObj ==
    [level |-> "None", elements_ |-> {}, operation_ |-> <<>>, identity_ |-> -1,
     inverse_map_ |-> <<>>, inverse_func_ |-> <<>>]

MkGroupoid(S, f) ==
    [level |-> "Groupoid", elements_ |-> S, operation_ |-> f, identity_ |-> -1,
     inverse_map_ |-> <<>>, inverse_func_ |-> <<>>]

\* Groupoid::operate
operate(G, a, b) ==
    IF a \notin G.elements_ \/ b \notin G.elements_ THEN DomainError
    ELSE IF G.operation_[a, b] \notin G.elements_ THEN RuntimeError
    ELSE G.operation_[a, b]

\* mutant: the closure scan visits the pairs (a, a) only
GroupoidError_DiagonalOnly(S, f) ==
    IF \E a \in S : f[a, a] \notin S THEN ErrNotClosed ELSE ""

\* Groupoid::Groupoid: the closure scan over all ordered pairs
GroupoidError(S, f) ==
    IF \E a \in S, b \in S : f[a, b] \notin S THEN ErrNotClosed ELSE ""

\* mutant: both sides of the comparison are the left-nested product
is_associative_SameSide(G) ==
    \A a \in G.elements_, b \in G.elements_, c \in G.elements_ :
        operate(G, operate(G, a, b), c) = operate(G, operate(G, a, b), c)

\* Groupoid::is_associative
is_associative(G) ==
    \A a \in G.elements_, b \in G.elements_, c \in G.elements_ :
        operate(G, operate(G, a, b), c) = operate(G, a, operate(G, b, c))

\* Groupoid::is_commutative
is_commutative(G) ==
    \A a \in G.elements_, b \in G.elements_ : operate(G, a, b) = operate(G, b, a)

\* Groupoid::has_left_cancellation
has_left_cancellation(G) ==
    \A a \in G.elements_, b \in G.elements_, c \in G.elements_ :
        ~(operate(G, a, b) = operate(G, a, c) /\ b # c)

\* Groupoid::has_right_cancellation
has_right_cancellation(G) ==
    \A a \in G.elements_, b \in G.elements_, c \in G.elements_ :
        ~(operate(G, b, a) = operate(G, c, a) /\ b # c)

\* --------------------------------------------------------------- Semigroup
\* Semigroup::Semigroup: the base constructor, then is_associative
SemigroupError(S, f) ==
    IF GroupoidError(S, f) # "" THEN GroupoidError(S, f)
    ELSE IF ~is_associative(MkGroupoid(S, f)) THEN ErrNotAssociative
    ELSE ""

MkSemigroup(S, f) == [MkGroupoid(S, f) EXCEPT !.level = "Semigroup"]

\* mutant: the left-identity test is missing
IdentityCandidates_RightOnly(G) ==
    {c \in G.elements_ : \A a \in G.elements_ : operate(G, a, c) = a}

\* the candidates Semigroup::find_identity accepts
IdentityCandidates(G) ==
    {c \in G.elements_ :
        \A a \in G.elements_ : operate(G, c, a) = a /\ operate(G, a, c) = a}

\* Semigroup::has_identity
has_identity(G) == IdentityCandidates(G) # {}

\* Semigroup::find_identity: the first candidate in iteration order, or the
\* std::logic_error thrown when there is none
find_identity(G) ==
    IF IdentityCandidates(G) = {} THEN LogicError ELSE Begin(IdentityCandidates(G))

\* ------------------------------------------------------------------ Monoid
\* mutant: the right-identity test is missing
MonoidError_LeftOnly(S, f, e) ==
    IF SemigroupError(S, f) # "" THEN SemigroupError(S, f)
    ELSE IF e \notin S THEN ErrIdentityNotInSet
    ELSE IF \E a \in S : operate(MkGroupoid(S, f), e, a) # a THEN ErrNotLeftIdentity
    ELSE ""

\* mutant: membership of the identity is tested before the base constructor runs
MonoidError_IdentityFirst(S, f, e) ==
    IF e \notin S THEN ErrIdentityNotInSet
    ELSE IF SemigroupError(S, f) # "" THEN SemigroupError(S, f)
    ELSE LET G == MkGroupoid(S, f)
             bad == {a \in S : operate(G, e, a) # a \/ operate(G, a, e) # a}
         IN  IF bad = {} THEN ""
             ELSE IF operate(G, e, Begin(bad)) # Begin(bad) THEN ErrNotLeftIdentity
             ELSE ErrNotRightIdentity

\* Monoid::Monoid(elements, op, identity)
MonoidError(S, f, e) ==
    IF SemigroupError(S, f) # "" THEN SemigroupError(S, f)
    ELSE IF e \notin S THEN ErrIdentityNotInSet
    ELSE LET G == MkGroupoid(S, f)
             bad == {a \in S : operate(G, e, a) # a \/ operate(G, a, e) # a}
         IN  IF bad = {} THEN ""
             ELSE IF operate(G, e, Begin(bad)) # Begin(bad) THEN ErrNotLeftIdentity
             ELSE ErrNotRightIdentity

MkMonoid(S, f, e) == [MkGroupoid(S, f) EXCEPT !.level = "Monoid", !.identity_ = e]

\* Monoid::Monoid(semigroup)
MonoidFromSemigroupError(G) == IF has_identity(G) THEN "" ELSE ErrNoIdentity

MkMonoidFromSemigroup(G) ==
    [G EXCEPT !.level = "Monoid", !.identity_ = find_identity(G)]

\* the b Monoid::is_invertible / Monoid::inverse accept for a
InverseCandidates(G, a) ==
    {b \in G.elements_ :
        operate(G, a, b) = G.identity_ /\ operate(G, b, a) = G.identity_}

\* Monoid::is_invertible
is_invertible(G, a) == a \in G.elements_ /\ InverseCandidates(G, a) # {}

\* Monoid::invertible_elements
invertible_elements(G) == {a \in G.elements_ : InverseCandidates(G, a) # {}}

\* Monoid::inverse (called for invertible a only)
Monoid_inverse(G, a) == Begin(InverseCandidates(G, a))

\* ------------------------------------------------------------------- Group
\* mutant: only membership of the supplied inverse is tested
InverseCheck_MembershipOnly(G, e, inv, a) ==
    IF inv[a] \notin G.elements_ THEN ErrInverseNotInSet ELSE ""

\* the checks of Group::Group(elements, op, identity, inverse_func) on one a
InverseCheck(G, e, inv, a) ==
    IF inv[a] \notin G.elements_ THEN ErrInverseNotInSet
    ELSE IF operate(G, a, inv[a]) # e THEN ErrInverseRight
    ELSE IF operate(G, inv[a], a) # e THEN ErrInverseLeft
    ELSE ""

\* mutant: the validation loop stops after the first element
GroupError_FirstOnly(S, f, e, inv) ==
    IF MonoidError(S, f, e) # "" THEN MonoidError(S, f, e)
    ELSE IF S = {} THEN ""
    ELSE InverseCheck(MkGroupoid(S, f), e, inv, Begin(S))

\* Group::Group(elements, op, identity, inverse_func)
GroupError(S, f, e, inv) ==
    IF MonoidError(S, f, e) # "" THEN MonoidError(S, f, e)
    ELSE LET G == MkGroupoid(S, f)
             bad == {a \in S : InverseCheck(G, e, inv, a) # ""}
         IN  IF bad = {} THEN "" ELSE InverseCheck(G, e, inv, Begin(bad))

\* the checks Group::Group(elements, op, identity, inverse_func) performs, in
\* the order it performs them: the base constructors run first (Groupoid, then
\* Semigroup, then Monoid), then the constructor's own loop; a check that throws
\* is the last one
GroupChecks(S, f, e, inv) ==
    IF GroupoidError(S, f) # "" THEN <<"closure">>
    ELSE IF SemigroupError(S, f) # "" THEN <<"closure", "associativity">>
    ELSE IF MonoidError(S, f, e) # "" THEN <<"closure", "associativity", "identity">>
    ELSE <<"closure", "associativity", "identity", "inverses">>

\* the number of calls of inverse_func Group::Group makes: none before the base
\* constructors return, one per element up to the element whose check throws,
\* and one more per element while inverse_map_ is filled
InverseFuncCalls(S, f, e, inv) ==
    IF MonoidError(S, f, e) # "" THEN 0
    ELSE LET G == MkGroupoid(S, f)
             bad == {a \in S : InverseCheck(G, e, inv, a) # ""}
         IN  IF bad = {} THEN 2 * Cardinality(S)
             ELSE Cardinality({a \in S : a <= Begin(bad)})

\* inverse_map_ is filled by applying inverse_func a second time; the callable
\* is a function of its argument, so the stored values are the validated ones.
MkGroup(S, f, e, inv) ==
    [level |-> "Group", elements_ |-> S, operation_ |-> f, identity_ |-> e,
     inverse_map_ |-> [a \in S |-> inv[a]], inverse_func_ |-> inv]

\* Group::Group(monoid)
GroupFromMonoidError(G) ==
    IF invertible_elements(G) # G.elements_ THEN ErrNotAllInvertible ELSE ""

MkGroupFromMonoid(G) ==
    [G EXCEPT !.level = "Group",
              !.inverse_map_ = [a \in G.elements_ |-> Monoid_inverse(G, a)]]

\* Group::inverse
inverse(G, a) ==
    IF a \notin G.elements_ THEN DomainError
    ELSE IF a \in DOMAIN G.inverse_map_ THEN G.inverse_map_[a]
    ELSE G.inverse_func_[a]

\* Group::satisfies_alternative_definition (static): the first left identity in
\* iteration order, a left inverse for every element, associativity; op is
\* applied as it is, closure is not tested
satisfies_alternative_definition(S, f) ==
    LET lefts == {candidate \in S : \A a \in S : f[candidate, a] = a}
    IN  IF lefts = {} THEN FALSE
        ELSE LET left_identity == Begin(lefts)
             IN  /\ \A a \in S : \E candidate_inv \in S : f[candidate_inv, a] = left_identity
                 /\ \A a \in S, b \in S, c \in S : f[f[a, b], c] = f[a, f[b, c]]

\* Group::satisfies_right_alternative_definition (static)
satisfies_right_alternative_definition(S, f) ==
    LET rights == {candidate \in S : \A a \in S : f[a, candidate] = a}
    IN  IF rights = {} THEN FALSE
        ELSE LET right_identity == Begin(rights)
             IN  /\ \A a \in S : \E candidate_inv \in S : f[a, candidate_inv] = right_identity
                 /\ \A a \in S, b \in S, c \in S : f[f[a, b], c] = f[a, f[b, c]]

\* Group::divide
divide(G, a, b) == operate(G, a, inverse(G, b))

\* Group::is_abelian
is_abelian(G) == is_commutative(G)

\* ---------------------------------------------------------------- Subgroup
\* A Subgroup holds a reference to its parent Group (the structure obj) and
\* its own copy of the subset.
NoSub == [exists |-> FALSE, subset_ |-> {}]

MkSubgroup(subset) == [exists |-> TRUE, subset_ |-> subset]

\* the product a o b^-1 a pair of Subgroup::verify_subgroup_criterion computes
CriterionProduct(G, a, b) == operate(G, a, inverse(G, b))

\* mutant: the inner loop is missing, only the pairs (a, a) are tested
verify_subgroup_criterion_DiagonalOnly(G, subset) ==
    IF subset = {} THEN "false"
    ELSE IF \E a \in subset : a \notin G.elements_ THEN "false"
    ELSE IF \E a \in subset : CriterionProduct(G, a, a) \notin subset THEN "false"
    ELSE "true"

\* mutant: the scan for elements outside the parent group is missing
verify_subgroup_criterion_NoContainment(G, subset) ==
    IF subset = {} THEN "false"
    ELSE LET stops(a, b) == CriterionProduct(G, a, b) \notin subset
             as == {a \in subset : \E b \in subset : stops(a, b)}
         IN  IF as = {} THEN "true"
             ELSE LET a0 == Begin(as)
                      b0 == Begin({b \in subset : stops(a0, b)})
                  IN  IF inverse(G, b0) = DomainError THEN ErrElementNotInGroup
                      ELSE IF CriterionProduct(G, a0, b0) = DomainError
                      THEN ErrElementsNotInGroupoid
                      ELSE "false"

\* Subgroup::verify_subgroup_criterion: "true", "false", or the message of the
\* exception that escapes from Group::inverse / Groupoid::operate
verify_subgroup_criterion(G, subset) ==
    IF subset = {} THEN "false"
    ELSE IF \E a \in subset : a \notin G.elements_ THEN "false"
    ELSE LET stops(a, b) == CriterionProduct(G, a, b) \notin subset
             as == {a \in subset : \E b \in subset : stops(a, b)}
         IN  IF as = {} THEN "true"
             ELSE LET a0 == Begin(as)
                      b0 == Begin({b \in subset : stops(a0, b)})
                  IN  IF inverse(G, b0) = DomainError THEN ErrElementNotInGroup
                      ELSE IF CriterionProduct(G, a0, b0) = DomainError
                      THEN ErrElementsNotInGroupoid
                      ELSE "false"

\* mutant: the closure scan visits the pairs (a, a) only
verify_finite_subgroup_criterion_DiagonalOnly(G, subset) ==
    /\ subset # {}
    /\ \A a \in subset : a \in G.elements_
    /\ \A a \in subset : operate(G, a, a) \in subset

\* Subgroup::verify_finite_subgroup_criterion
verify_finite_subgroup_criterion(G, subset) ==
    /\ subset # {}
    /\ \A a \in subset : a \in G.elements_
    /\ \A a \in subset, b \in subset : operate(G, a, b) \in subset

\* Subgroup::Subgroup(parent_group, subset)
SubgroupError(G, subset) ==
    LET r == verify_subgroup_criterion(G, subset)
    IN  IF r = "true" THEN "" ELSE IF r = "false" THEN ErrNotSubgroup ELSE r

\* ---------------------------------------------------------- NormalSubgroup
\* mutant: g ranges over the subgroup instead of the parent group
verify_normal_WithinSubgroup(G, N) ==
    \A g \in N, n \in N :
        operate(G, operate(G, g, n), inverse(G, g)) \in N

\* NormalSubgroup::verify_normal (and the static is_normal)
verify_normal(G, N) ==
    \A g \in G.elements_, n \in N :
        operate(G, operate(G, g, n), inverse(G, g)) \in N

\* the static NormalSubgroup::is_normal(subgroup): the same scan, on a Subgroup
is_normal(G, H) ==
    \A g \in G.elements_, n \in H.subset_ :
        operate(G, operate(G, g, n), inverse(G, g)) \in H.subset_

\* mutant: the right coset is built with the left coset's product
verify_normal_via_cosets_SameSide(G, N) ==
    \A g \in G.elements_ :
        {operate(G, g, n) : n \in N} = {operate(G, g, n) : n \in N}

\* NormalSubgroup::verify_normal_via_cosets
verify_normal_via_cosets(G, N) ==
    \A g \in G.elements_ :
        {operate(G, g, n) : n \in N} = {operate(G, n, g) : n \in N}

\* NormalSubgroup::NormalSubgroup(subgroup)
NormalSubgroupError(G, H) ==
    IF ~verify_normal(G, H.subset_) THEN ErrNotNormalSubgroup ELSE ""

\* NormalSubgroup::NormalSubgroup(parent_group, subset)
NormalSubgroupFromSubsetError(G, subset) ==
    IF SubgroupError(G, subset) # "" THEN SubgroupError(G, subset)
    ELSE IF ~verify_normal(G, subset) THEN ErrNotNormalSubset
    ELSE ""

\* ------------------------------------------------------------------- Coset
\* Coset::build_coset
build_coset(G, H, representative, type) ==
    IF type = "LEFT" THEN {operate(G, representative, h) : h \in H.subset_}
    ELSE {operate(G, h, representative) : h \in H.subset_}

\* Coset::Coset: group_ and subgroup_ are references, held here as the names of
\* the objects they refer to
MkCoset(G, H, group_ref, subgroup_ref, representative, type) ==
    [group_ |-> group_ref, subgroup_ |-> subgroup_ref,
     representative_ |-> representative, type_ |-> type,
     coset_ |-> build_coset(G, H, representative, type)]

\* Coset::operator==: the addresses of the two references, then the sets
Coset_equals(a, b) ==
    a.group_ = b.group_ /\ a.subgroup_ = b.subgroup_ /\ a.coset_ = b.coset_

\* the loop of LagrangesTheorem::find_all_cosets over the elements still to visit
RECURSIVE FindAllCosetsLoop(_, _, _, _)
FindAllCosetsLoop(G, H, todo, cosets) ==
    IF todo = {} THEN cosets
    ELSE LET g == Begin(todo)
             in_processed == \E coset \in cosets : g \in coset
         IN  FindAllCosetsLoop(G, H, todo \ {g},
                 IF in_processed THEN cosets
                 ELSE cosets \cup {build_coset(G, H, g, "LEFT")})

\* mutant: the representatives are taken from the subgroup, not the group
find_all_cosets_OverSubgroup(G, H) == FindAllCosetsLoop(G, H, H.subset_, {})

\* LagrangesTheorem::find_all_cosets
find_all_cosets(G, H) == FindAllCosetsLoop(G, H, G.elements_, {})

\* LagrangesTheorem::compute_index
compute_index(G, H) == Cardinality(find_all_cosets(G, H))

\* LagrangesTheorem::verify
LagrangesTheorem_verify(G, H) ==
    Cardinality(G.elements_) = Cardinality(H.subset_) * compute_index(G, H)

\* LagrangesTheorem::order_divides_group_order
order_divides_group_order(G, H) ==
    Cardinality(G.elements_) % Cardinality(H.subset_) = 0

\* CosetPartition::verify_partition
verify_partition(G, cosets) ==
    /\ UNION cosets = G.elements_
    /\ \A c1 \in cosets, c2 \in cosets : c1 # c2 => c1 \cap c2 = {}

\* ------------------------------------------------------------- FactorGroup
\* std::set<int>::operator< : lexicographic comparison of the sorted elements
SetLess(A, B) ==
    /\ A # B
    /\ LET m == Begin((A \ B) \cup (B \ A))
       IN  IF m \in A THEN \E y \in B : y > m ELSE ~(\E y \in A : y > m)

NoFactorGroup ==
    [exists |-> FALSE, parent_group_ |-> NoObj, cosets_ |-> {},
     element_to_coset_ |-> <<>>]

\* FactorGroup::build_coset_set: later cosets (in Set<Set<T>> order) overwrite
BuildElementToCoset(cosets) ==
    [x \in UNION cosets |->
        CHOOSE c \in cosets :
            x \in c /\ \A d \in cosets : (x \in d /\ d # c) => SetLess(d, c)]

\* FactorGroup::FactorGroup(group, normal_subgroup): the two arguments are
\* independent references.  build_coset_set throws what Groupoid::operate
\* throws while the first coset is built, when the subset has an element that
\* is not in the group's carrier.
FactorGroupError(G, N) ==
    IF \E c \in find_all_cosets(G, N) : DomainError \in c
    THEN ErrElementsNotInGroupoid ELSE ""

MkFactorGroup(G, N) ==
    [exists |-> TRUE, parent_group_ |-> G, cosets_ |-> find_all_cosets(G, N),
     element_to_coset_ |-> BuildElementToCoset(find_all_cosets(G, N))]

\* FactorGroup::find_coset_containing
find_coset_containing(F, element) ==
    IF element \in DOMAIN F.element_to_coset_ THEN F.element_to_coset_[element]
    ELSE LogicErrorSet

\* FactorGroup::operate
FactorGroup_operate(F, G, coset_a, coset_b) ==
    IF coset_a \notin F.cosets_ \/ coset_b \notin F.cosets_ THEN DomainErrorSet
    ELSE find_coset_containing(F, operate(G, Begin(coset_a), Begin(coset_b)))

\* FactorGroup::identity
FactorGroup_identity(F, G) == find_coset_containing(F, G.identity_)

\* mutant: the coset of the representative itself, not of its inverse
FactorGroup_inverse_OfRepresentative(F, G, coset) ==
    IF coset \notin F.cosets_ THEN DomainErrorSet
    ELSE find_coset_containing(F, Begin(coset))

\* FactorGroup::inverse
FactorGroup_inverse(F, G, coset) ==
    IF coset \notin F.cosets_ THEN DomainErrorSet
    ELSE find_coset_containing(F, inverse(G, Begin(coset)))

\* the coset a loop over a Set<Set<T>> visits first
FirstCoset(cosets) == CHOOSE c \in cosets : \A d \in cosets \ {c} : SetLess(c, d)

\* an exception escaping from a Set<T>-valued query of the factor group
IsErrorSet(X) == X \in {DomainErrorSet, LogicErrorSet}

ErrorSetMessage(X) == IF X = LogicErrorSet THEN ErrNotInAnyCoset ELSE ErrInvalidCosets

\* one pass of FactorGroup::verify_factor_group over the cosets: left[c] and
\* right[c] are the two sets computed for c, want[c] the set both are compared
\* with.  The first coset, in loop order, that throws or fails decides; "" when
\* every coset passes.
VerifyLoop(cosets, left, right, want) ==
    LET stops(c) ==
            IsErrorSet(left[c]) \/ IsErrorSet(right[c])
                \/ left[c] # want[c] \/ right[c] # want[c]
        bad == {c \in cosets : stops(c)}
    IN  IF bad = {} THEN ""
        ELSE LET c == FirstCoset(bad)
             IN  IF IsErrorSet(left[c]) THEN ErrorSetMessage(left[c])
                 ELSE IF IsErrorSet(right[c]) THEN ErrorSetMessage(right[c])
                 ELSE "false"

\* the associativity pass: the first triple (a, b, c), in loop order, that throws
\* or fails; "" when every triple passes
FactorAssociativity(F, G) ==
    LET nest(x, y, z) ==
            LET xy == FactorGroup_operate(F, G, x, y)
            IN  IF IsErrorSet(xy) THEN xy ELSE FactorGroup_operate(F, G, xy, z)
        nestr(x, y, z) ==
            LET yz == FactorGroup_operate(F, G, y, z)
            IN  IF IsErrorSet(yz) THEN yz ELSE FactorGroup_operate(F, G, x, yz)
        stops(x, y, z) ==
            IsErrorSet(nest(x, y, z)) \/ IsErrorSet(nestr(x, y, z))
                \/ nest(x, y, z) # nestr(x, y, z)
        as == {x \in F.cosets_ : \E y \in F.cosets_, z \in F.cosets_ : stops(x, y, z)}
    IN  IF as = {} THEN ""
        ELSE LET a0 == FirstCoset(as)
                 b0 == FirstCoset({y \in F.cosets_ : \E z \in F.cosets_ : stops(a0, y, z)})
                 c0 == FirstCoset({z \in F.cosets_ : stops(a0, b0, z)})
             IN  IF IsErrorSet(nest(a0, b0, c0)) THEN ErrorSetMessage(nest(a0, b0, c0))
                 ELSE IF IsErrorSet(nestr(a0, b0, c0)) THEN ErrorSetMessage(nestr(a0, b0, c0))
                 ELSE "false"

\* FactorGroup::verify_factor_group: "true", "false", or the message of the
\* exception that escapes from identity / operate / inverse
verify_factor_group(F, G) ==
    LET identity_coset == FactorGroup_identity(F, G)
        idl == [c \in F.cosets_ |-> FactorGroup_operate(F, G, identity_coset, c)]
        idr == [c \in F.cosets_ |-> FactorGroup_operate(F, G, c, identity_coset)]
        same == [c \in F.cosets_ |-> c]
        inv == [c \in F.cosets_ |-> FactorGroup_inverse(F, G, c)]
        invl == [c \in F.cosets_ |->
                    IF IsErrorSet(inv[c]) THEN inv[c]
                    ELSE FactorGroup_operate(F, G, c, inv[c])]
        invr == [c \in F.cosets_ |->
                    IF IsErrorSet(inv[c]) THEN inv[c]
                    ELSE FactorGroup_operate(F, G, inv[c], c)]
        ident == [c \in F.cosets_ |-> identity_coset]
        pass1 == VerifyLoop(F.cosets_, idl, idr, same)
        pass2 == VerifyLoop(F.cosets_, invl, invr, ident)
        pass3 == FactorAssociativity(F, G)
    IN  IF IsErrorSet(identity_coset) THEN ErrorSetMessage(identity_coset)
        ELSE IF pass1 # "" THEN pass1
        ELSE IF pass2 # "" THEN pass2
        ELSE IF pass3 # "" THEN pass3
        ELSE "true"

\* ------------------------------------------------------------ Group::power
\* mutant: the squaring of current_power is missing
RECURSIVE PowerLoop_NoSquaring(_, _, _, _)
PowerLoop_NoSquaring(G, result, current_power, exp) ==
    IF exp = 0 THEN result
    ELSE PowerLoop_NoSquaring(G,
             IF exp % 2 = 1 THEN operate(G, result, current_power) ELSE result,
             current_power,
             exp \div 2)

\* the while loop of Group::power over (result, current_power, exp)
RECURSIVE PowerLoop(_, _, _, _)
PowerLoop(G, result, current_power, exp) ==
    IF exp = 0 THEN result
    ELSE PowerLoop(G,
             IF exp % 2 = 1 THEN operate(G, result, current_power) ELSE result,
             operate(G, current_power, current_power),
             exp \div 2)

\* Group::power: a thrown exception is the sentinel the failing call returned
RECURSIVE power(_, _, _)
power(G, a, n) ==
    IF n = 0 THEN G.identity_
    ELSE IF n < 0 THEN
        IF inverse(G, a) = DomainError THEN DomainError
        ELSE power(G, inverse(G, a), -n)
    ELSE PowerLoop(G, G.identity_, a, n)

\* ------------------------------------------------------------ ElementOrder
\* std::nullopt of a std::optional<size_t> or std::optional<T>
Nullopt == -4

\* mutant: the loop stops one step short of the group order
RECURSIVE ElementOrderLoop_ShortByOne(_, _, _, _)
ElementOrderLoop_ShortByOne(G, element, current, n) ==
    IF n >= Cardinality(G.elements_) THEN Nullopt
    ELSE IF current = G.identity_ THEN n
    ELSE ElementOrderLoop_ShortByOne(G, element, operate(G, current, element), n + 1)

\* the for loop of ElementOrder::compute: current is element^n
RECURSIVE ElementOrderLoop(_, _, _, _)
ElementOrderLoop(G, element, current, n) ==
    IF n > Cardinality(G.elements_) THEN Nullopt
    ELSE IF current = G.identity_ THEN n
    ELSE ElementOrderLoop(G, element, operate(G, current, element), n + 1)

\* ElementOrder::compute
ElementOrder_compute(G, element) ==
    IF element \notin G.elements_ THEN DomainError
    ELSE IF element = G.identity_ THEN 1
    ELSE ElementOrderLoop(G, element, element, 1)

\* ----------------------------------------------------------- GroupExponent
\* GroupExponent::gcd
RECURSIVE gcd(_, _)
gcd(a, b) == IF b = 0 THEN a ELSE gcd(b, a % b)

\* mutant: the product, not the least common multiple
lcm_Product(a, b) == IF a = 0 \/ b = 0 THEN 0 ELSE a * b

\* GroupExponent::lcm
lcm(a, b) == IF a = 0 \/ b = 0 THEN 0 ELSE (a \div gcd(a, b)) * b

\* GroupExponent::lcm_vector over the orders of the elements still to visit,
\* result being the value for the elements visited so far
RECURSIVE LcmOrders(_, _, _)
LcmOrders(G, todo, result) ==
    IF todo = {} THEN result
    ELSE LET element == Begin(todo)
         IN  LcmOrders(G, todo \ {element}, lcm(result, ElementOrder_compute(G, element)))

\* GroupExponent::compute
GroupExponent_compute(G) ==
    IF \E element \in G.elements_ : ElementOrder_compute(G, element) = Nullopt THEN Nullopt
    ELSE IF G.elements_ = {} THEN Nullopt
    ELSE LcmOrders(G, G.elements_ \ {Begin(G.elements_)},
                   ElementOrder_compute(G, Begin(G.elements_)))

\* GroupExponent::satisfies_exponent
satisfies_exponent(G, n) ==
    \A element \in G.elements_ : power(G, element, n) = G.identity_

\* GroupExponent::is_cyclic
GroupExponent_is_cyclic(G) ==
    GroupExponent_compute(G) # Nullopt
        /\ GroupExponent_compute(G) = Cardinality(G.elements_)

\* ------------------------------------------------------------- CyclicGroup
\* mutant: an element whose order divides the group order counts as a generator
is_generator_Divides(G, element) ==
    /\ element \in G.elements_
    /\ ElementOrder_compute(G, element) # Nullopt
    /\ Cardinality(G.elements_) % ElementOrder_compute(G, element) = 0

\* CyclicGroup::is_generator
is_generator(G, element) ==
    /\ element \in G.elements_
    /\ ElementOrder_compute(G, element) # Nullopt
    /\ ElementOrder_compute(G, element) = Cardinality(G.elements_)

\* CyclicGroup::find_generator: the first generator in iteration order
find_generator(G) ==
    LET gens == {candidate \in G.elements_ : is_generator(G, candidate)}
    IN  IF gens = {} THEN Nullopt ELSE Begin(gens)

\* CyclicGroup::is_cyclic
is_cyclic(G) == find_generator(G) # Nullopt

\* CyclicGroup::find_all_generators
find_all_generators(G) ==
    IF ~is_cyclic(G) THEN {}
    ELSE {element \in G.elements_ : is_generator(G, element)}

\* the loop of the branch of generate_cyclic_subgroup taken when the order is
\* absent: at most max_iterations insertions, stopping when the identity recurs
RECURSIVE GenerateFallbackLoop(_, _, _, _, _)
GenerateFallbackLoop(G, generator, current, i, subgroup) ==
    IF i >= Cardinality(G.elements_) THEN subgroup
    ELSE IF current = G.identity_ /\ i > 0 THEN subgroup
    ELSE GenerateFallbackLoop(G, generator, operate(G, current, generator), i + 1,
                              subgroup \cup {current})

\* mutant: the loop stops one insertion early
RECURSIVE GenerateOrderLoop_ShortByOne(_, _, _, _, _, _)
GenerateOrderLoop_ShortByOne(G, generator, current, i, order, subgroup) ==
    IF i + 1 >= order THEN subgroup
    ELSE GenerateOrderLoop_ShortByOne(G, generator, operate(G, current, generator),
                                      i + 1, order, subgroup \cup {current})

\* the loop of the branch taken when the order is present: i runs from 1 to
\* order - 1
RECURSIVE GenerateOrderLoop(_, _, _, _, _, _)
GenerateOrderLoop(G, generator, current, i, order, subgroup) ==
    IF i >= order THEN subgroup
    ELSE GenerateOrderLoop(G, generator, operate(G, current, generator), i + 1, order,
                           subgroup \cup {current})

\* CyclicGroup::generate_cyclic_subgroup
generate_cyclic_subgroup(G, generator) ==
    IF generator \notin G.elements_ THEN DomainErrorSet
    ELSE IF ElementOrder_compute(G, generator) = Nullopt
    THEN GenerateFallbackLoop(G, generator, generator, 0, {G.identity_})
    ELSE GenerateOrderLoop(G, generator, generator, 1,
                           ElementOrder_compute(G, generator), {G.identity_})

\* ----------------------------------------------------------- EulerFunction
\* mutant: the step for the prime factor left after the loop is missing
RECURSIVE EulerLoop_NoLastPrime(_, _, _)
EulerLoop_NoLastPrime(p, temp, result) ==
    IF p * p > temp THEN result
    ELSE IF temp % p = 0
    THEN LET RECURSIVE strip(_)
             strip(t) == IF t % p = 0 THEN strip(t \div p) ELSE t
         IN  EulerLoop_NoLastPrime(p + 1, strip(temp), (result \div p) * (p - 1))
    ELSE EulerLoop_NoLastPrime(p + 1, temp, result)

\* the factorisation loop of EulerFunction::compute over (p, temp, result),
\* followed by the step for the prime factor that is left
RECURSIVE EulerLoop(_, _, _)
EulerLoop(p, temp, result) ==
    IF p * p > temp
    THEN IF temp > 1 THEN (result \div temp) * (temp - 1) ELSE result
    ELSE IF temp % p = 0
    THEN LET RECURSIVE strip(_)
             strip(t) == IF t % p = 0 THEN strip(t \div p) ELSE t
         IN  EulerLoop(p + 1, strip(temp), (result \div p) * (p - 1))
    ELSE EulerLoop(p + 1, temp, result)

\* EulerFunction::compute
EulerFunction_compute(n) ==
    IF n = 0 THEN 0 ELSE IF n = 1 THEN 1 ELSE EulerLoop(2, n, n)

\* EulerFunction::count_coprime
count_coprime(n) ==
    IF n = 0 THEN 0 ELSE IF n = 1 THEN 1
    ELSE Cardinality({i \in 1 .. (n - 1) : gcd(i, n) = 1})

\* EulerFunction::verify_count
verify_count(n) == EulerFunction_compute(n) = count_coprime(n)

\* the sum EulerFunction::verify_sum_over_divisors accumulates, d from n down
RECURSIVE DivisorSum(_, _)
DivisorSum(n, d) ==
    IF d = 0 THEN 0
    ELSE (IF n % d = 0 THEN EulerFunction_compute(d) ELSE 0) + DivisorSum(n, d - 1)

\* EulerFunction::verify_sum_over_divisors
verify_sum_over_divisors(n) == DivisorSum(n, n) = n

\* EulerFunction::number_of_generators
number_of_generators(G) ==
    IF ~is_cyclic(G) THEN 0 ELSE EulerFunction_compute(Cardinality(G.elements_))

\* ------------------------------------------------------------- Centralizer
\* ------------------------------------------------------------------ Center
\* mutant: a candidate is compared with the first element of the group only
Center_compute_FirstOnly(G) ==
    {candidate \in G.elements_ :
        operate(G, candidate, Begin(G.elements_)) = operate(G, Begin(G.elements_), candidate)}

\* Center::compute
Center_compute(G) ==
    {candidate \in G.elements_ :
        \A g \in G.elements_ : operate(G, candidate, g) = operate(G, g, candidate)}

\* Center::as_subgroup: the message of the exception Subgroup's constructor
\* throws on the center, "" if it returns the Subgroup
Center_as_subgroup_error(G) == SubgroupError(G, Center_compute(G))

\* Center::is_abelian
Center_is_abelian(G) == Center_compute(G) = G.elements_

\* mutant: the membership test of the element is missing
Centralizer_compute_NoCheck(G, element) ==
    {g \in G.elements_ : operate(G, g, element) = operate(G, element, g)}

\* Centralizer::compute
Centralizer_compute(G, element) ==
    IF element \notin G.elements_ THEN DomainErrorSet
    ELSE {g \in G.elements_ : operate(G, g, element) = operate(G, element, g)}

\* ------------------------------------------------------------- CayleyTable
NoCayleyTable == [exists |-> FALSE, elements_ |-> {}, table_ |-> <<>>]

\* CayleyTable::CayleyTable(structure): elements_ is the carrier in iteration
\* order, table_ maps every ordered pair of it to structure.operate(a, b)
MkCayleyTable(S) ==
    [exists |-> TRUE, elements_ |-> S.elements_,
     table_ |-> [pair \in S.elements_ \X S.elements_ |-> operate(S, pair[1], pair[2])]]

\* mutant: the row and the column are swapped
lookup_Transposed(T, a, b) ==
    IF <<b, a>> \in DOMAIN T.table_ THEN T.table_[<<b, a>>] ELSE DomainError

\* CayleyTable::lookup
lookup(T, a, b) ==
    IF <<a, b>> \in DOMAIN T.table_ THEN T.table_[<<a, b>>] ELSE DomainError

\* CayleyTable::is_associative
CayleyTable_is_associative(T) ==
    \A a \in T.elements_, b \in T.elements_, c \in T.elements_ :
        lookup(T, lookup(T, a, b), c) = lookup(T, a, lookup(T, b, c))

\* CayleyTable::is_commutative
CayleyTable_is_commutative(T) ==
    \A a \in T.elements_, b \in T.elements_ : lookup(T, a, b) = lookup(T, b, a)

\* CayleyTable::find_identity: the first candidate in elements_ order, or the
\* std::logic_error thrown when there is none
CayleyTable_find_identity(T) ==
    LET ids == {candidate \in T.elements_ :
                   \A a \in T.elements_ :
                       lookup(T, candidate, a) = a /\ lookup(T, a, candidate) = a}
    IN  IF ids = {} THEN LogicError ELSE Begin(ids)

\* CayleyTable::has_left_cancellation: in row a, a result seen for an earlier
\* column (seen[result], the latest such b) that is not the current column
CayleyTable_has_left_cancellation(T) ==
    \A a \in T.elements_, b \in T.elements_ :
        LET earlier == {x \in T.elements_ : x < b /\ lookup(T, a, x) = lookup(T, a, b)}
        IN  earlier = {} \/ Begin({x \in earlier : \A y \in earlier : y <= x}) = b

\* CayleyTable::has_right_cancellation
CayleyTable_has_right_cancellation(T) ==
    \A b \in T.elements_, a \in T.elements_ :
        LET earlier == {x \in T.elements_ : x < a /\ lookup(T, x, b) = lookup(T, a, b)}
        IN  earlier = {} \/ Begin({x \in earlier : \A y \in earlier : y <= x}) = a

\* ----------------------------------------------------- other Group objects
\* A Group object that exists beside obj: the additive group of the integers
\* mod MaxVal - 2.
OtherGroups ==
    {MkGroup(0 .. (MaxVal - 3), AddMod(MaxVal - 2), 0, NegMod(MaxVal - 2))}

\* ------------------------------------------------------------------- state
VARIABLES
    elements,   \* the carrier handed to the constructors
    op,         \* the operation handed to the constructors
    obj,        \* the structure built from them (NoObj while none exists)
    sub,        \* a Subgroup of obj
    nsub,       \* a NormalSubgroup of obj
    fg,         \* the FactorGroup built from a Group and nsub
    cayley,     \* the CayleyTable built from obj
    last        \* the most recent call: its arguments and its outcome

vars == <<elements, op, obj, sub, nsub, fg, cayley, last>>

Call(name, args, err, ret) == [call |-> name, args |-> args, err |-> err, ret |-> ret]

\* the calls that are queries of an existing object
Queries ==
    {"LagrangesTheorem", "FactorGroup::operate", "NormalSubgroup::is_normal",
     "is_associative", "verify_subgroup_criterion", "verify_normal",
     "verify_factor_group", "Groupoid::operate", "Group::inverse", "Group::power",
     "ElementOrder::compute", "Centralizer::compute", "GroupExponent",
     "CyclicGroup", "CayleyTable::lookup", "CayleyTable::scan",
     "EulerFunction::compute", "EulerFunction::verify_count",
     "EulerFunction::verify_sum_over_divisors", "Coset::operator==",
     "Group::satisfies_alternative_definition", "Subgroup::criteria",
     "Center::compute"}

\* The next call can be made: no query is waiting for its caller to take the
\* result, and no constructor threw (that leaves no object behind, and the run
\* ends there).
Running == last.call \notin Queries /\ last.err = ""

Init ==
    /\ elements \in Carriers
    /\ op \in Operations
    /\ obj = NoObj
    /\ sub = NoSub
    /\ nsub = NoSub
    /\ fg = NoFactorGroup
    /\ cayley = NoCayleyTable
    /\ last = Call("none", <<>>, "", <<>>)

\* Groupoid g(elements, op);
ConstructGroupoid ==
    /\ Running
    /\ obj.level = "None"
    /\ LET err == GroupoidError(elements, op)
       IN  /\ obj' = IF err = "" THEN MkGroupoid(elements, op) ELSE obj
           /\ last' = Call("Groupoid", <<>>, err, <<>>)
    /\ UNCHANGED <<elements, op, sub, nsub, fg, cayley>>

\* Semigroup s(elements, op);
ConstructSemigroup ==
    /\ Running
    /\ obj.level = "None"
    /\ LET err == SemigroupError(elements, op)
       IN  /\ obj' = IF err = "" THEN MkSemigroup(elements, op) ELSE obj
           /\ last' = Call("Semigroup", <<>>, err, <<>>)
    /\ UNCHANGED <<elements, op, sub, nsub, fg, cayley>>

\* Monoid m(elements, op, e);
ConstructMonoid ==
    /\ Running
    /\ obj.level = "None"
    /\ \E e \in Val :
        LET err == MonoidError(elements, op, e)
        IN  /\ obj' = IF err = "" THEN MkMonoid(elements, op, e) ELSE obj
            /\ last' = Call("Monoid", [identity |-> e], err, <<>>)
    /\ UNCHANGED <<elements, op, sub, nsub, fg, cayley>>

\* Monoid m(semigroup);
ConstructMonoidFromSemigroup ==
    /\ Running
    /\ obj.level = "Semigroup"
    /\ LET err == MonoidFromSemigroupError(obj)
       IN  /\ obj' = IF err = "" THEN MkMonoidFromSemigroup(obj) ELSE obj
           /\ last' = Call("Monoid(semigroup)", <<>>, err, <<>>)
    /\ UNCHANGED <<elements, op, sub, nsub, fg, cayley>>

\* Group g(elements, op, e, inverse_func);
ConstructGroup ==
    /\ Running
    /\ obj.level = "None"
    /\ \E e \in Val :
        \E inv \in InverseFunctions(elements, op, e) :
            LET err == GroupError(elements, op, e, inv)
            IN  /\ obj' = IF err = "" THEN MkGroup(elements, op, e, inv) ELSE obj
                /\ last' = Call("Group", [identity |-> e, inverse_func |-> inv], err,
                                [checks |-> GroupChecks(elements, op, e, inv),
                                 inverse_func_calls |-> InverseFuncCalls(elements, op, e, inv)])
    /\ UNCHANGED <<elements, op, sub, nsub, fg, cayley>>

\* Group g(monoid);
ConstructGroupFromMonoid ==
    /\ Running
    /\ obj.level = "Monoid"
    /\ LET err == GroupFromMonoidError(obj)
       IN  /\ obj' = IF err = "" THEN MkGroupFromMonoid(obj) ELSE obj
           /\ last' = Call("Group(monoid)", <<>>, err, <<>>)
    /\ UNCHANGED <<elements, op, sub, nsub, fg, cayley>>

\* Subgroup h(g, subset);
ConstructSubgroup ==
    /\ Running
    /\ obj.level = "Group"
    /\ ~sub.exists /\ ~nsub.exists
    /\ \E subset \in SUBSET Val :
        LET err == SubgroupError(obj, subset)
        IN  /\ sub' = IF err = "" THEN MkSubgroup(subset) ELSE sub
            /\ last' = Call("Subgroup", [subset |-> subset], err, <<>>)
    /\ UNCHANGED <<elements, op, obj, nsub, fg, cayley>>

\* mutant: the Subgroup is moved from, not copied
ConstructNormalSubgroup_MovesSubset ==
    /\ Running
    /\ sub.exists /\ ~nsub.exists
    /\ LET err == NormalSubgroupError(obj, sub)
       IN  /\ nsub' = IF err = "" THEN MkSubgroup(sub.subset_) ELSE nsub
           /\ last' = Call("NormalSubgroup(subgroup)", [subset |-> sub.subset_], err, <<>>)
    /\ sub' = MkSubgroup({})
    /\ UNCHANGED <<elements, op, obj, fg, cayley>>

\* NormalSubgroup n(h);
ConstructNormalSubgroup ==
    /\ Running
    /\ sub.exists /\ ~nsub.exists
    /\ LET err == NormalSubgroupError(obj, sub)
       IN  /\ nsub' = IF err = "" THEN MkSubgroup(sub.subset_) ELSE nsub
           /\ last' = Call("NormalSubgroup(subgroup)", [subset |-> sub.subset_], err, <<>>)
    /\ UNCHANGED <<elements, op, obj, sub, fg, cayley>>

\* NormalSubgroup n(g, subset);
ConstructNormalSubgroupFromSubset ==
    /\ Running
    /\ obj.level = "Group"
    /\ ~sub.exists /\ ~nsub.exists
    /\ \E subset \in SUBSET Val :
        LET err == NormalSubgroupFromSubsetError(obj, subset)
        IN  /\ nsub' = IF err = "" THEN MkSubgroup(subset) ELSE nsub
            /\ last' = Call("NormalSubgroup(group, subset)", [subset |-> subset], err, <<>>)
    /\ UNCHANGED <<elements, op, obj, sub, fg, cayley>>

\* LagrangesTheorem / CosetPartition queries on a subgroup of obj
QueryLagrange ==
    /\ Running
    /\ \E H \in {h \in {sub, nsub} : h.exists} :
        last' = Call("LagrangesTheorem", [subset |-> H.subset_], "",
                     [cosets |-> find_all_cosets(obj, H),
                      index |-> compute_index(obj, H),
                      verify |-> LagrangesTheorem_verify(obj, H),
                      order_divides |-> order_divides_group_order(obj, H),
                      verify_partition |-> verify_partition(obj, find_all_cosets(obj, H))])
    /\ UNCHANGED <<elements, op, obj, sub, nsub, fg, cayley>>

\* FactorGroup q(g, n);
ConstructFactorGroup ==
    /\ Running
    /\ nsub.exists /\ ~fg.exists
    /\ \E group \in {obj} \cup OtherGroups :
        LET err == FactorGroupError(group, nsub)
        IN  /\ fg' = IF err = "" THEN MkFactorGroup(group, nsub) ELSE fg
            /\ last' = Call("FactorGroup", [group |-> group, subset |-> nsub.subset_],
                            err, <<>>)
    /\ UNCHANGED <<elements, op, obj, sub, nsub, cayley>>

\* Sets handed to FactorGroup::operate: the cosets of the factor group, and
\* {MaxVal}, which is not one of them.
QueryCosets(F) == F.cosets_ \cup {{MaxVal}}

\* q.operate(coset_a, coset_b)
QueryFactorOperate ==
    /\ Running
    /\ fg.exists
    /\ \E coset_a \in QueryCosets(fg), coset_b \in QueryCosets(fg) :
        LET r == FactorGroup_operate(fg, fg.parent_group_, coset_a, coset_b)
        IN  last' = Call("FactorGroup::operate", [coset_a |-> coset_a, coset_b |-> coset_b],
                         IF IsErrorSet(r) THEN ErrorSetMessage(r) ELSE "", r)
    /\ UNCHANGED <<elements, op, obj, sub, nsub, fg, cayley>>

\* NormalSubgroup<T, Op>::is_normal(h)
QueryIsNormal ==
    /\ Running
    /\ sub.exists
    /\ last' = Call("NormalSubgroup::is_normal", [subset |-> sub.subset_], "",
                    is_normal(obj, sub))
    /\ UNCHANGED <<elements, op, obj, sub, nsub, fg, cayley>>

\* s.is_associative() on the structure at any level of the hierarchy
QueryIsAssociative ==
    /\ Running
    /\ obj.level # "None"
    /\ last' = Call("is_associative", [level |-> obj.level], "", is_associative(obj))
    /\ UNCHANGED <<elements, op, obj, sub, nsub, fg, cayley>>

\* h.verify_subgroup_criterion() on the Subgroup or on the NormalSubgroup
QueryVerifySubgroupCriterion ==
    /\ Running
    /\ \E H \in {h \in {sub, nsub} : h.exists} :
        LET r == verify_subgroup_criterion(obj, H.subset_)
        IN  last' = Call("verify_subgroup_criterion", [subset |-> H.subset_],
                         IF r \in {"true", "false"} THEN "" ELSE r, r)
    /\ UNCHANGED <<elements, op, obj, sub, nsub, fg, cayley>>

\* n.verify_normal() and n.verify_normal_via_cosets() on the NormalSubgroup
QueryVerifyNormal ==
    /\ Running
    /\ nsub.exists
    /\ last' = Call("verify_normal", [subset |-> nsub.subset_], "",
                    [verify_normal |-> verify_normal(obj, nsub.subset_),
                     verify_normal_via_cosets |-> verify_normal_via_cosets(obj, nsub.subset_)])
    /\ UNCHANGED <<elements, op, obj, sub, nsub, fg, cayley>>

\* q.verify_factor_group()
QueryVerifyFactorGroup ==
    /\ Running
    /\ fg.exists
    /\ LET r == verify_factor_group(fg, fg.parent_group_)
       IN  last' = Call("verify_factor_group", <<>>,
                        IF r \in {"true", "false"} THEN "" ELSE r, r)
    /\ UNCHANGED <<elements, op, obj, sub, nsub, fg, cayley>>

\* The caller of a query takes its result, or catches what it threw, and goes
\* on with the same objects.
Return ==
    /\ last.call \in Queries
    /\ last' = Call("none", <<>>, "", <<>>)
    /\ UNCHANGED <<elements, op, obj, sub, nsub, fg, cayley>>

Next ==
    \/ ConstructGroupoid
    \/ ConstructSemigroup
    \/ ConstructMonoid
    \/ ConstructMonoidFromSemigroup
    \/ ConstructGroup
    \/ ConstructGroupFromMonoid
    \/ ConstructSubgroup
    \/ ConstructNormalSubgroup
    \/ ConstructNormalSubgroupFromSubset
    \/ QueryLagrange
    \/ ConstructFactorGroup
    \/ QueryFactorOperate
    \/ QueryIsNormal
    \/ QueryIsAssociative
    \/ QueryVerifySubgroupCriterion
    \/ QueryVerifyNormal
    \/ QueryVerifyFactorGroup
    \/ Return

Spec == Init /\ [][Next]_vars

\* ------------------------------------------- queries on the elements of obj
\* Elements handed to a query: every value, and MaxVal, which no carrier holds.
QueryArgs == Val \cup {MaxVal}

\* the message of the exception a T-valued query threw, "" if it returned
ThrownMessage(value, domain_message) ==
    IF value = DomainError THEN domain_message
    ELSE IF value = RuntimeError THEN ErrClosureDetected
    ELSE ""

\* CayleyTable t(s);
ConstructCayleyTable ==
    /\ Running
    /\ obj.level # "None" /\ ~cayley.exists
    /\ cayley' = MkCayleyTable(obj)
    /\ last' = Call("CayleyTable", [level |-> obj.level], "", <<>>)
    /\ UNCHANGED <<elements, op, obj, sub, nsub, fg>>

\* s.operate(a, b)
QueryOperate ==
    /\ Running
    /\ obj.level # "None"
    /\ \E a \in QueryArgs, b \in QueryArgs :
        last' = Call("Groupoid::operate", [a |-> a, b |-> b],
                     ThrownMessage(operate(obj, a, b), ErrElementsNotInGroupoid),
                     operate(obj, a, b))
    /\ UNCHANGED <<elements, op, obj, sub, nsub, fg, cayley>>

\* g.inverse(a)
QueryInverse ==
    /\ Running
    /\ obj.level = "Group"
    /\ \E a \in QueryArgs :
        last' = Call("Group::inverse", [a |-> a],
                     ThrownMessage(inverse(obj, a), ErrElementNotInGroup),
                     inverse(obj, a))
    /\ UNCHANGED <<elements, op, obj, sub, nsub, fg, cayley>>

\* g.power(a, n)
QueryPower ==
    /\ Running
    /\ obj.level = "Group"
    /\ \E a \in QueryArgs, n \in (-MaxExp) .. MaxExp :
        last' = Call("Group::power", [a |-> a, n |-> n],
                     ThrownMessage(power(obj, a, n),
                         IF n < 0 THEN ErrElementNotInGroup ELSE ErrElementsNotInGroupoid),
                     power(obj, a, n))
    /\ UNCHANGED <<elements, op, obj, sub, nsub, fg, cayley>>

\* ElementOrder<T, Op>::compute(g, element)
QueryElementOrder ==
    /\ Running
    /\ obj.level = "Group"
    /\ \E element \in QueryArgs :
        last' = Call("ElementOrder::compute", [element |-> element],
                     ThrownMessage(ElementOrder_compute(obj, element), ErrElementNotInGroup),
                     ElementOrder_compute(obj, element))
    /\ UNCHANGED <<elements, op, obj, sub, nsub, fg, cayley>>

\* Centralizer<T, Op>::compute(g, element)
QueryCentralizer ==
    /\ Running
    /\ obj.level = "Group"
    /\ \E element \in QueryArgs :
        last' = Call("Centralizer::compute", [element |-> element],
                     IF Centralizer_compute(obj, element) = DomainErrorSet
                     THEN ErrElementNotInGroup ELSE "",
                     Centralizer_compute(obj, element))
    /\ UNCHANGED <<elements, op, obj, sub, nsub, fg, cayley>>

\* GroupExponent<T, Op>::compute(g), satisfies_exponent(g, n) and is_cyclic(g)
QueryGroupExponent ==
    /\ Running
    /\ obj.level = "Group"
    /\ \E n \in 1 .. MaxExp :
        last' = Call("GroupExponent", [n |-> n], "",
                     [compute |-> GroupExponent_compute(obj),
                      satisfies_exponent |-> satisfies_exponent(obj, n),
                      is_cyclic |-> GroupExponent_is_cyclic(obj)])
    /\ UNCHANGED <<elements, op, obj, sub, nsub, fg, cayley>>

\* CyclicGroup<T, Op>: find_generator, is_cyclic, find_all_generators,
\* generate_cyclic_subgroup(g, generator), and EulerFunction::number_of_generators
QueryCyclicGroup ==
    /\ Running
    /\ obj.level = "Group"
    /\ \E generator \in QueryArgs :
        last' = Call("CyclicGroup", [generator |-> generator],
                     IF generate_cyclic_subgroup(obj, generator) = DomainErrorSet
                     THEN ErrElementNotInGroup ELSE "",
                     [find_generator |-> find_generator(obj),
                      is_cyclic |-> is_cyclic(obj),
                      find_all_generators |-> find_all_generators(obj),
                      number_of_generators |-> number_of_generators(obj),
                      generate_cyclic_subgroup |-> generate_cyclic_subgroup(obj, generator)])
    /\ UNCHANGED <<elements, op, obj, sub, nsub, fg, cayley>>

\* t.lookup(a, b)
QueryCayleyLookup ==
    /\ Running
    /\ cayley.exists
    /\ \E a \in QueryArgs, b \in QueryArgs :
        last' = Call("CayleyTable::lookup", [a |-> a, b |-> b],
                     ThrownMessage(lookup(cayley, a, b), ErrNotInCayleyTable),
                     lookup(cayley, a, b))
    /\ UNCHANGED <<elements, op, obj, sub, nsub, fg, cayley>>

\* the table-only scans of t
QueryCayleyScan ==
    /\ Running
    /\ cayley.exists
    /\ last' = Call("CayleyTable::scan", <<>>,
                    IF CayleyTable_find_identity(cayley) = LogicError
                    THEN ErrNoIdentityElement ELSE "",
                    [is_associative |-> CayleyTable_is_associative(cayley),
                     is_commutative |-> CayleyTable_is_commutative(cayley),
                     has_left_cancellation |-> CayleyTable_has_left_cancellation(cayley),
                     has_right_cancellation |-> CayleyTable_has_right_cancellation(cayley),
                     find_identity |-> CayleyTable_find_identity(cayley)])
    /\ UNCHANGED <<elements, op, obj, sub, nsub, fg, cayley>>

\* Center<T, Op>::compute(g), as_subgroup(g) and the NormalSubgroup built from
\* it, Center::is_abelian(g), and g.is_abelian()
QueryCenter ==
    /\ Running
    /\ obj.level = "Group"
    /\ LET center == Center_compute(obj)
           err == IF Center_as_subgroup_error(obj) # "" THEN Center_as_subgroup_error(obj)
                  ELSE NormalSubgroupError(obj, MkSubgroup(center))
       IN  last' = Call("Center::compute", <<>>, err,
                        [compute |-> center,
                         Center_is_abelian |-> Center_is_abelian(obj),
                         Group_is_abelian |-> is_abelian(obj)])
    /\ UNCHANGED <<elements, op, obj, sub, nsub, fg, cayley>>

NextQuery ==
    \/ ConstructGroupoid
    \/ ConstructSemigroup
    \/ ConstructMonoid
    \/ ConstructMonoidFromSemigroup
    \/ ConstructGroup
    \/ ConstructGroupFromMonoid
    \/ QueryOperate
    \/ QueryInverse
    \/ QueryPower
    \/ QueryElementOrder
    \/ QueryCentralizer
    \/ QueryGroupExponent
    \/ QueryCyclicGroup
    \/ QueryCenter
    \/ Return

\* the structure hierarchy and the queries on the elements of a structure
SpecQuery == Init /\ [][NextQuery]_vars

NextCayley ==
    \/ ConstructGroupoid
    \/ ConstructSemigroup
    \/ ConstructMonoid
    \/ ConstructMonoidFromSemigroup
    \/ ConstructGroup
    \/ ConstructGroupFromMonoid
    \/ ConstructCayleyTable
    \/ QueryCayleyLookup
    \/ QueryCayleyScan
    \/ Return

\* the structure hierarchy and the Cayley table of a structure
SpecCayley == Init /\ [][NextCayley]_vars

NextRecover ==
    \/ ConstructGroupoid
    \/ ConstructSemigroup
    \/ ConstructMonoid
    \/ ConstructMonoidFromSemigroup
    \/ ConstructGroup
    \/ ConstructGroupFromMonoid
    \/ ConstructNormalSubgroupFromSubset
    \/ ConstructFactorGroup
    \/ ConstructCayleyTable
    \/ QueryOperate
    \/ QueryInverse
    \/ QueryElementOrder
    \/ QueryCentralizer
    \/ QueryCayleyLookup
    \/ QueryFactorOperate
    \/ Return

\* the structures and the queries that take elements or cosets from the caller
SpecRecover == Init /\ [][NextRecover]_vars

\* ------------------------------------------------------------ Coset objects
CosetTypes == {"LEFT", "RIGHT"}

\* the Subgroup objects that exist, by name: sub, and nsub (a NormalSubgroup is
\* a Subgroup)
SubgroupRefs == {r \in {"sub", "nsub"} : IF r = "sub" THEN sub.exists ELSE nsub.exists}

Deref(r) == IF r = "sub" THEN sub ELSE nsub

\* Coset a(g, h1, ga, ta), b(g, h2, gb, tb); a == b
QueryCosetEquals ==
    /\ Running
    /\ obj.level = "Group"
    /\ \E ra \in SubgroupRefs, rb \in SubgroupRefs,
          ga \in obj.elements_, gb \in obj.elements_,
          ta \in CosetTypes, tb \in CosetTypes :
        LET a == MkCoset(obj, Deref(ra), "obj", ra, ga, ta)
            b == MkCoset(obj, Deref(rb), "obj", rb, gb, tb)
        IN  last' = Call("Coset::operator==", [a |-> a, b |-> b], "", Coset_equals(a, b))
    /\ UNCHANGED <<elements, op, obj, sub, nsub, fg, cayley>>

NextCoset ==
    \/ ConstructGroup
    \/ ConstructSubgroup
    \/ ConstructNormalSubgroup
    \/ QueryCosetEquals
    \/ Return

\* a Group, its Subgroup and NormalSubgroup objects, and the Cosets over them
SpecCoset == Init /\ [][NextCoset]_vars

\* ------------------------------------- the alternative group definitions
\* Group<T, Op>::satisfies_alternative_definition(elements, op) and
\* satisfies_right_alternative_definition(elements, op): static, on the inputs
QueryAlternativeDefinition ==
    /\ Running
    /\ last' = Call("Group::satisfies_alternative_definition", <<>>, "",
                    [left |-> satisfies_alternative_definition(elements, op),
                     right |-> satisfies_right_alternative_definition(elements, op)])
    /\ UNCHANGED <<elements, op, obj, sub, nsub, fg, cayley>>

\* verify_subgroup_criterion() and verify_finite_subgroup_criterion(), as the
\* members compute them over the parent group and a subset, for any subset
QuerySubgroupCriteria ==
    /\ Running
    /\ obj.level = "Group"
    /\ \E subset \in SUBSET Val :
        LET r == verify_subgroup_criterion(obj, subset)
        IN  last' = Call("Subgroup::criteria", [subset |-> subset],
                         IF r \in {"true", "false"} THEN "" ELSE r,
                         [verify_subgroup_criterion |-> r,
                          verify_finite_subgroup_criterion |->
                              verify_finite_subgroup_criterion(obj, subset)])
    /\ UNCHANGED <<elements, op, obj, sub, nsub, fg, cayley>>

NextAlternative ==
    \/ ConstructGroup
    \/ QueryAlternativeDefinition
    \/ QuerySubgroupCriteria
    \/ Return

\* the inputs, Group's constructor on them, and the tests of the alternative
\* definitions of a group and of a subgroup
SpecAlternative == Init /\ [][NextAlternative]_vars

\* ------------------------------------------- the objects built over a Group
ChildConstructors ==
    {"Subgroup", "NormalSubgroup(subgroup)", "NormalSubgroup(group, subset)",
     "FactorGroup", "CayleyTable"}

\* The caller catches the exception the constructor of a Subgroup,
\* NormalSubgroup, FactorGroup or CayleyTable threw and goes on with the objects
\* that exist.
Catch ==
    /\ last.call \in ChildConstructors
    /\ last.err # ""
    /\ last' = Call("none", <<>>, "", <<>>)
    /\ UNCHANGED <<elements, op, obj, sub, nsub, fg, cayley>>

NextChildren ==
    \/ ConstructGroup
    \/ ConstructSubgroup
    \/ ConstructNormalSubgroup
    \/ ConstructNormalSubgroupFromSubset
    \/ ConstructFactorGroup
    \/ ConstructCayleyTable
    \/ QueryCosetEquals
    \/ QueryLagrange
    \/ QueryVerifyNormal
    \/ QueryFactorOperate
    \/ QueryVerifyFactorGroup
    \/ QueryCayleyLookup
    \/ Return
    \/ Catch

\* a Group, the objects built over it, their queries, and failed constructions
\* of further objects
SpecChildren == Init /\ [][NextChildren]_vars

\* --------------------------------------------------- EulerFunction queries
\* EulerFunction::compute(n), verify_count(n), verify_sum_over_divisors(n)
QueryEulerCompute ==
    /\ Running
    /\ \E n \in 0 .. MaxN :
        last' = Call("EulerFunction::compute", [n |-> n], "", EulerFunction_compute(n))
    /\ UNCHANGED <<elements, op, obj, sub, nsub, fg, cayley>>

QueryEulerVerifyCount ==
    /\ Running
    /\ \E n \in 0 .. MaxN :
        last' = Call("EulerFunction::verify_count", [n |-> n], "",
                     [count_coprime |-> count_coprime(n), verify_count |-> verify_count(n)])
    /\ UNCHANGED <<elements, op, obj, sub, nsub, fg, cayley>>

QueryEulerVerifySum ==
    /\ Running
    /\ \E n \in 0 .. MaxN :
        last' = Call("EulerFunction::verify_sum_over_divisors", [n |-> n], "",
                     [sum |-> DivisorSum(n, n), verify |-> verify_sum_over_divisors(n)])
    /\ UNCHANGED <<elements, op, obj, sub, nsub, fg, cayley>>

\* EulerFunction has no state: no structure is involved
InitEuler ==
    /\ elements = {}
    /\ op = LeftProj
    /\ obj = NoObj
    /\ sub = NoSub
    /\ nsub = NoSub
    /\ fg = NoFactorGroup
    /\ cayley = NoCayleyTable
    /\ last = Call("none", <<>>, "", <<>>)

NextEuler ==
    \/ QueryEulerCompute
    \/ QueryEulerVerifyCount
    \/ QueryEulerVerifySum
    \/ Return

SpecEuler == InitEuler /\ [][NextEuler]_vars

\* ------------------------------------------------- the laws, stated directly
\* on the carrier and the operation's table (no call of the library)
Closed(S, f) == \A a \in S, b \in S : f[a, b] \in S

Associative(S, f) ==
    \A a \in S, b \in S, c \in S : f[f[a, b], c] = f[a, f[b, c]]

LeftIdentity(S, f, e) == \A a \in S : f[e, a] = a

RightIdentity(S, f, e) == \A a \in S : f[a, e] = a

TwoSidedIdentity(S, f, e) == e \in S /\ LeftIdentity(S, f, e) /\ RightIdentity(S, f, e)

BadInverse(S, f, e, inv, a) ==
    inv[a] \notin S \/ f[a, inv[a]] # e \/ f[inv[a], a] # e

\* the n-fold product a o a o ... o a on the table, the identity for n = 0
RECURSIVE NaivePower(_, _, _)
NaivePower(G, a, n) ==
    IF n = 0 THEN G.identity_ ELSE G.operation_[NaivePower(G, a, n - 1), a]

\* i and n have no common divisor but 1
Coprime(i, n) == \A d \in 2 .. i : ~(i % d = 0 /\ n % d = 0)

\* G is the additive group of the integers mod 6
IsZ6(G) ==
    /\ G.level = "Group"
    /\ G.elements_ = 0 .. 5
    /\ G.identity_ = 0
    /\ \A a \in 0 .. 5, b \in 0 .. 5 : G.operation_[a, b] = (a + b) % 6

\* subset is non-empty, inside G and closed under a o b^-1
SubgroupCriterion(G, subset) ==
    /\ subset # {}
    /\ subset \subseteq G.elements_
    /\ \A a \in subset, b \in subset :
           G.operation_[a, G.inverse_map_[b]] \in subset

\* g o n o g^-1 is in N for every g of G and every n of N
ConjugationClosed(G, N) ==
    \A g \in G.elements_, n \in N :
        /\ n \in G.elements_
        /\ G.operation_[G.operation_[g, n], G.inverse_map_[g]] \in N

\* ------------------------------------------------------------------ claims

\* C1: in every successfully constructed Group (either constructor), for every
\* element a of the carrier, operate(a, inverse(a)) and operate(inverse(a), a)
\* both equal identity().
C1_InverseLaw ==
    obj.level = "Group" =>
        \A a \in obj.elements_ :
            /\ operate(obj, a, inverse(obj, a)) = obj.identity_
            /\ operate(obj, inverse(obj, a), a) = obj.identity_

C1_Witness ==
    /\ last.call = "Group(monoid)"
    /\ obj.level = "Group"
    /\ Cardinality(obj.elements_) >= 3
    /\ \E a \in obj.elements_ : inverse(obj, a) # a

\* C2: Lagrange.  For a valid Group G and a valid Subgroup H of G, |G| mod |H|
\* is 0 and |G| = |H| * compute_index(G, H), the index being the number of sets
\* find_all_cosets returns; verify and order_divides_group_order return true.
C2_Lagrange ==
    last.call = "LagrangesTheorem" =>
        LET g == Cardinality(obj.elements_)
            h == Cardinality(last.args.subset)
        IN  /\ last.ret.verify
            /\ last.ret.order_divides
            /\ last.ret.index = Cardinality(last.ret.cosets)
            /\ g % h = 0
            /\ g = h * last.ret.index

C2_Witness ==
    /\ last.call = "LagrangesTheorem"
    /\ last.ret.index >= 2
    /\ Cardinality(last.args.subset) >= 2
    /\ ~is_abelian(obj)

\* C3: the FactorGroup operation does not depend on the representatives: for
\* cosets A, B of the FactorGroup and every a in A, b in B, the coset that
\* contains G.operate(a, b) is the set FactorGroup::operate(A, B) returns.
C3_RepresentativeIndependent ==
    (last.call = "FactorGroup::operate" /\ fg.parent_group_ = obj
        /\ last.args.coset_a \in fg.cosets_ /\ last.args.coset_b \in fg.cosets_) =>
        /\ last.ret \in fg.cosets_
        /\ \A a \in last.args.coset_a, b \in last.args.coset_b :
               find_coset_containing(fg, operate(obj, a, b)) = last.ret

C3_Witness ==
    /\ last.call = "FactorGroup::operate"
    /\ fg.parent_group_ = obj
    /\ ~is_abelian(obj)
    /\ Cardinality(last.args.coset_a) >= 2
    /\ last.ret # FactorGroup_identity(fg, obj)
    /\ \E a \in last.args.coset_a, b \in last.args.coset_b :
           operate(obj, a, b) # operate(obj, Begin(last.args.coset_a), Begin(last.args.coset_b))

\* C4: the sets find_all_cosets(G, H) returns partition G's carrier: each
\* element of G lies in exactly one of them, they are non-empty and pairwise
\* disjoint, verify_partition accepts them; for Z6 and H = {0,3} they are
\* {0,3}, {1,4}, {2,5}.
C4_CosetsPartition ==
    last.call = "LagrangesTheorem" =>
        /\ \A x \in obj.elements_ :
               Cardinality({c \in last.ret.cosets : x \in c}) = 1
        /\ \A c \in last.ret.cosets : c # {} /\ c \subseteq obj.elements_
        /\ \A c \in last.ret.cosets, d \in last.ret.cosets :
               c = d \/ c \cap d = {}
        /\ last.ret.verify_partition
        /\ (obj.elements_ = 0 .. 5 /\ obj.operation_ = AddMod(6) /\ last.args.subset = {0, 3})
               => last.ret.cosets = {{0, 3}, {1, 4}, {2, 5}}

C4_Witness ==
    /\ last.call = "LagrangesTheorem"
    /\ obj.elements_ = 0 .. 5
    /\ obj.operation_ = AddMod(6)
    /\ last.args.subset = {0, 3}
    /\ last.ret.cosets = {{0, 3}, {1, 4}, {2, 5}}

\* C5: Groupoid(carrier, op) succeeds exactly when op(a, b) is in the carrier
\* for every ordered pair; otherwise it fails with the closure violation and
\* no Groupoid exists.
C5_GroupoidIffClosed ==
    last.call = "Groupoid" =>
        /\ (last.err = "") <=> Closed(elements, op)
        /\ last.err = "" =>
               obj.level = "Groupoid" /\ obj.elements_ = elements /\ obj.operation_ = op
        /\ last.err # "" => ErrorKind(last.err) = "ClosureViolation" /\ obj = NoObj

C5_Witness ==
    /\ last.call = "Groupoid"
    /\ last.err = ErrNotClosed
    /\ \A a \in elements : op[a, a] \in elements
    /\ obj = NoObj

\* C6: for a closed operation, Semigroup(carrier, op) succeeds exactly when
\* op(op(a,b),c) = op(a,op(b,c)) for every triple; one failing triple makes it
\* fail with the not-associative error.
C6_SemigroupIffAssociative ==
    (last.call = "Semigroup" /\ Closed(elements, op)) =>
        /\ (last.err = "") <=> Associative(elements, op)
        /\ last.err = "" => obj.level = "Semigroup" /\ obj.elements_ = elements
        /\ last.err # "" => ErrorKind(last.err) = "NotAssociative" /\ obj = NoObj

C6_Witness ==
    /\ last.call = "Semigroup"
    /\ Closed(elements, op)
    /\ last.err = ErrNotAssociative
    /\ Cardinality({t \in elements \X elements \X elements :
                       op[op[t[1], t[2]], t[3]] # op[t[1], op[t[2], t[3]]]}) = 1

\* C7: for a closed, associative operation, Monoid(carrier, op, e) succeeds
\* exactly when e is in the carrier and op(e,a) = a = op(a,e) for every a; a
\* candidate outside the carrier, or one that is only a left or only a right
\* identity, fails with the invalid-identity error.
C7_MonoidIffIdentity ==
    (last.call = "Monoid" /\ Closed(elements, op) /\ Associative(elements, op)) =>
        /\ (last.err = "") <=> TwoSidedIdentity(elements, op, last.args.identity)
        /\ last.err = "" =>
               obj.level = "Monoid" /\ obj.identity_ = last.args.identity
        /\ last.err # "" => ErrorKind(last.err) = "InvalidIdentity" /\ obj = NoObj

C7_Witness ==
    /\ last.call = "Monoid"
    /\ last.err = ErrNotRightIdentity
    /\ last.args.identity \in elements
    /\ LeftIdentity(elements, op, last.args.identity)
    /\ ~RightIdentity(elements, op, last.args.identity)

\* C8: for a valid monoid (carrier, op, e), Group(carrier, op, e, inverseFn)
\* fails with the invalid-inverse error exactly when some a has inverseFn(a)
\* outside the carrier or op(a, inverseFn(a)) # e or op(inverseFn(a), a) # e;
\* {0,1,2} with multiplication mod 3 and identity 1 fails so for every
\* inverseFn.
C8_GroupIffInverses ==
    /\ (/\ last.call = "Group"
        /\ Closed(elements, op) /\ Associative(elements, op)
        /\ TwoSidedIdentity(elements, op, last.args.identity)) =>
            /\ (ErrorKind(last.err) = "InvalidInverse") <=>
                   \E a \in elements :
                       BadInverse(elements, op, last.args.identity, last.args.inverse_func, a)
            /\ last.err # "" => ErrorKind(last.err) = "InvalidInverse" /\ obj = NoObj
            /\ last.err = "" => obj.level = "Group"
    /\ (last.call = "Group" /\ elements = {0, 1, 2} /\ op = MulMod(3)
            /\ last.args.identity = 1) =>
            /\ ErrorKind(last.err) = "InvalidInverse"
            /\ \A inv \in [elements -> Val] :
                   ErrorKind(GroupError(elements, op, 1, inv)) = "InvalidInverse"

C8_Witness ==
    /\ last.call = "Group"
    /\ elements = {0, 1, 2}
    /\ op = MulMod(3)
    /\ last.args.identity = 1
    /\ last.err = ErrInverseRight

\* C9: Subgroup(parent, subset) succeeds exactly when subset is non-empty,
\* lies in the parent's carrier and contains a o b^-1 for all its a, b; an
\* empty subset, a foreign element or a criterion failure each fail with the
\* not-a-subgroup error (never an element-not-in-domain error).
C9_SubgroupIffCriterion ==
    last.call = "Subgroup" =>
        /\ (last.err = "") <=> SubgroupCriterion(obj, last.args.subset)
        /\ last.err = "" => sub.exists /\ sub.subset_ = last.args.subset
        /\ last.err # "" => ErrorKind(last.err) = "NotASubgroup" /\ ~sub.exists

C9_Witness ==
    /\ last.call = "Subgroup"
    /\ last.err = ErrNotSubgroup
    /\ Cardinality(obj.elements_) >= 2
    /\ obj.identity_ \in last.args.subset
    /\ \E x \in last.args.subset : x \notin obj.elements_

\* C10 as written: NormalSubgroup construction, from a Subgroup or from a
\* group and a subset, succeeds exactly when g o n o g^-1 is in N for every g
\* of the parent group and every n of N.
C10_Original ==
    last.call \in {"NormalSubgroup(subgroup)", "NormalSubgroup(group, subset)"} =>
        ((last.err = "") <=> ConjugationClosed(obj, last.args.subset))

\* C10 amended: construction from a Subgroup succeeds exactly when
\* g o n o g^-1 is in N for every g and n; construction from a group and a
\* subset succeeds exactly when the subset also satisfies the subgroup
\* criterion; a FactorGroup exists only for a NormalSubgroup, whose subset is a
\* conjugation-closed subgroup.
C10_NormalGate ==
    /\ last.call = "NormalSubgroup(subgroup)" =>
           ((last.err = "") <=> ConjugationClosed(obj, last.args.subset))
    /\ last.call = "NormalSubgroup(group, subset)" =>
           ((last.err = "") <=>
                (SubgroupCriterion(obj, last.args.subset)
                 /\ ConjugationClosed(obj, last.args.subset)))
    /\ last.call \in {"NormalSubgroup(subgroup)", "NormalSubgroup(group, subset)"} =>
           ((last.err = "") <=> (nsub.exists /\ nsub.subset_ = last.args.subset))
    /\ nsub.exists =>
           SubgroupCriterion(obj, nsub.subset_) /\ ConjugationClosed(obj, nsub.subset_)
    /\ fg.exists => nsub.exists

C10_Witness ==
    /\ last.call = "NormalSubgroup(subgroup)"
    /\ last.err = ErrNotNormalSubgroup
    /\ sub.exists /\ ~nsub.exists /\ ~fg.exists
    /\ ~ConjugationClosed(obj, sub.subset_)

\* C11: for a valid Group G and a valid Subgroup H of G, normal or not, the
\* conjugation scan (verify_normal on a NormalSubgroup, the static is_normal on
\* a Subgroup) and the coset comparison g o H = H o g for every g
\* (verify_normal_via_cosets) give the same boolean.
C11_NormalChecksAgree ==
    /\ last.call = "NormalSubgroup::is_normal" =>
           /\ last.ret = verify_normal_via_cosets(obj, last.args.subset)
           /\ last.ret = verify_normal(obj, last.args.subset)
    /\ last.call = "verify_normal" =>
           (last.ret.verify_normal <=> last.ret.verify_normal_via_cosets)
    /\ sub.exists =>
           (verify_normal(obj, sub.subset_) <=> verify_normal_via_cosets(obj, sub.subset_))

C11_Witness ==
    /\ last.call = "NormalSubgroup::is_normal"
    /\ last.ret = FALSE
    /\ ~verify_normal_via_cosets(obj, sub.subset_)
    /\ Cardinality(sub.subset_) = 2

\* C13 as written: on a successfully constructed structure every validation
\* query returns true, however often and in whatever order it is run:
\* is_associative on a Semigroup, Monoid or Group, verify_subgroup_criterion on
\* a Subgroup, verify_normal and verify_normal_via_cosets on a NormalSubgroup,
\* verify_factor_group on a FactorGroup.
C13_Original ==
    /\ (last.call = "is_associative" /\ last.args.level \in {"Semigroup", "Monoid", "Group"}) =>
           last.ret = TRUE
    /\ last.call = "verify_subgroup_criterion" => last.ret = "true"
    /\ last.call = "verify_normal" =>
           (last.ret.verify_normal /\ last.ret.verify_normal_via_cosets)
    /\ last.call = "verify_factor_group" => last.ret = "true"

\* the part of C13 that concerns the structures validated at construction
C13_ValidatedStructures ==
    /\ (last.call = "is_associative" /\ last.args.level \in {"Semigroup", "Monoid", "Group"}) =>
           last.ret = TRUE
    /\ last.call = "verify_subgroup_criterion" => last.ret = "true"
    /\ last.call = "verify_normal" =>
           (last.ret.verify_normal /\ last.ret.verify_normal_via_cosets)
    /\ (last.call = "verify_factor_group" /\ fg.parent_group_ = obj) => last.ret = "true"

\* C12: round trip.  When CyclicGroup::find_generator(G) returns an element g,
\* CyclicGroup::generate_cyclic_subgroup(G, g) returns G's full carrier.
C12_GeneratorRoundTrip ==
    (last.call = "CyclicGroup" /\ last.ret.find_generator # Nullopt) =>
        /\ generate_cyclic_subgroup(obj, last.ret.find_generator) = obj.elements_
        /\ last.args.generator = last.ret.find_generator =>
               last.ret.generate_cyclic_subgroup = obj.elements_

C12_Witness ==
    /\ last.call = "CyclicGroup"
    /\ last.ret.find_generator # Nullopt
    /\ last.ret.find_generator # Begin(obj.elements_)
    /\ last.args.generator = last.ret.find_generator
    /\ last.ret.generate_cyclic_subgroup = obj.elements_
    /\ Cardinality(obj.elements_) = MaxVal

\* C14: for a valid Group G and an element a of it, ElementOrder::compute(G, a)
\* returns a present value n, 1 <= n <= |G|, the smallest positive integer with
\* a^n = identity; it is never absent, so generate_cyclic_subgroup never takes
\* its branch for an absent order.
C14_ElementOrder ==
    /\ (last.call = "ElementOrder::compute" /\ last.args.element \in obj.elements_) =>
           /\ last.ret \in 1 .. Cardinality(obj.elements_)
           /\ NaivePower(obj, last.args.element, last.ret) = obj.identity_
           /\ \A k \in 1 .. (last.ret - 1) :
                  NaivePower(obj, last.args.element, k) # obj.identity_
    /\ (last.call = "CyclicGroup" /\ last.args.generator \in obj.elements_) =>
           ElementOrder_compute(obj, last.args.generator) # Nullopt

C14_Witness ==
    /\ last.call = "ElementOrder::compute"
    /\ last.args.element \in obj.elements_
    /\ ~is_abelian(obj)
    /\ last.ret = 3

\* C15: GroupExponent::compute(G) returns a present value, the least common
\* multiple of the element orders, which is the smallest positive n with
\* a^n = identity for every a: satisfies_exponent(G, n) is true for it and false
\* for every smaller positive n.  For Z6 it is 6.
C15_GroupExponent ==
    last.call = "GroupExponent" =>
        LET exp == last.ret.compute
            orders == {ElementOrder_compute(obj, a) : a \in obj.elements_}
        IN  /\ exp # Nullopt /\ exp >= 1
            /\ \A o \in orders : exp % o = 0
            /\ \A k \in 1 .. (exp - 1) : \E o \in orders : k % o # 0
            /\ \A a \in obj.elements_ : NaivePower(obj, a, exp) = obj.identity_
            /\ satisfies_exponent(obj, exp)
            /\ \A k \in 1 .. (exp - 1) : ~satisfies_exponent(obj, k)
            /\ last.ret.satisfies_exponent <=> (last.args.n % exp = 0)
            /\ IsZ6(obj) => exp = 6

C15_Witness ==
    /\ last.call = "GroupExponent"
    /\ IsZ6(obj)
    /\ last.ret.compute = 6
    /\ last.args.n = 6
    /\ last.ret.satisfies_exponent

\* C16: CyclicGroup::find_all_generators(G) is the set of the elements whose
\* order is |G|.  When G is cyclic its size is EulerFunction::compute(|G|), the
\* value number_of_generators returns; when G is not cyclic it is empty.  For Z6
\* it is {1, 5}.
C16_Generators ==
    last.call = "CyclicGroup" =>
        LET gens == last.ret.find_all_generators
            full == {a \in obj.elements_ :
                        ElementOrder_compute(obj, a) = Cardinality(obj.elements_)}
        IN  /\ gens = full
            /\ last.ret.is_cyclic <=> (full # {})
            /\ last.ret.is_cyclic =>
                   /\ Cardinality(gens) = EulerFunction_compute(Cardinality(obj.elements_))
                   /\ Cardinality(gens) = last.ret.number_of_generators
            /\ ~last.ret.is_cyclic => gens = {}
            /\ IsZ6(obj) => gens = {1, 5}

C16_Witness ==
    /\ last.call = "CyclicGroup"
    /\ IsZ6(obj)
    /\ last.ret.is_cyclic
    /\ last.ret.find_all_generators = {1, 5}
    /\ last.ret.number_of_generators = 2

\* C18: for a valid Group G, an element a of it and a signed n, Group::power(a, n)
\* is the reference value: the identity for n = 0, the n-fold product of a for
\* n > 0, the |n|-fold product of inverse(a) for n < 0.  Consequently
\* power(a, m + n) = operate(power(a, m), power(a, n)) and
\* power(a, -n) = inverse(power(a, n)).
C18_Power ==
    (last.call = "Group::power" /\ last.args.a \in obj.elements_) =>
        LET a == last.args.a
            n == last.args.n
        IN  /\ last.err = ""
            /\ n = 0 => last.ret = obj.identity_
            /\ n > 0 => last.ret = NaivePower(obj, a, n)
            /\ n < 0 => last.ret = NaivePower(obj, inverse(obj, a), -n)
            /\ \A m \in (-MaxExp) .. MaxExp :
                   (m + n) \in (-MaxExp) .. MaxExp =>
                       power(obj, a, m + n) = obj.operation_[power(obj, a, m), last.ret]
            /\ power(obj, a, -n) = inverse(obj, last.ret)

C18_Witness ==
    /\ last.call = "Group::power"
    /\ last.args.a \in obj.elements_
    /\ ~is_abelian(obj)
    /\ last.args.n = -4
    /\ last.ret \notin {obj.identity_, last.args.a}
    /\ last.ret = NaivePower(obj, inverse(obj, last.args.a), 4)

\* C17: for every n >= 1, EulerFunction::compute(n) is the number of the integers
\* in [1, n] coprime to n, so it agrees with count_coprime; it is 1, 2, 6, 4 for
\* n = 1, 6, 7, 12; and the sum of compute(d) over the divisors d of n is n.
C17_EulerTotient ==
    /\ (last.call = "EulerFunction::compute" /\ last.args.n >= 1) =>
           /\ last.ret = Cardinality({i \in 1 .. last.args.n : Coprime(i, last.args.n)})
           /\ last.args.n = 1 => last.ret = 1
           /\ last.args.n = 6 => last.ret = 2
           /\ last.args.n = 7 => last.ret = 6
           /\ last.args.n = 12 => last.ret = 4
    /\ (last.call = "EulerFunction::verify_count" /\ last.args.n >= 1) =>
           /\ last.ret.verify_count
           /\ last.ret.count_coprime =
                  Cardinality({i \in 1 .. last.args.n : Coprime(i, last.args.n)})
    /\ (last.call = "EulerFunction::verify_sum_over_divisors" /\ last.args.n >= 1) =>
           /\ last.ret.verify
           /\ last.ret.sum = last.args.n

C17_Witness ==
    /\ last.call = "EulerFunction::compute"
    /\ last.args.n = 12
    /\ last.ret = 4

\* C19: the CayleyTable built from a validated structure S stores exactly one
\* entry per ordered pair of carrier elements, lookup(a, b) = S.operate(a, b),
\* and its table-only scans is_associative, is_commutative,
\* has_left_cancellation, has_right_cancellation and find_identity answer as the
\* operation-based checks of S do.
C19_CayleyTable ==
    /\ cayley.exists =>
           /\ DOMAIN cayley.table_ = obj.elements_ \X obj.elements_
           /\ \A a \in obj.elements_, b \in obj.elements_ :
                  lookup(cayley, a, b) = obj.operation_[a, b]
    /\ (last.call = "CayleyTable::lookup" /\ last.args.a \in obj.elements_
            /\ last.args.b \in obj.elements_) =>
           last.err = "" /\ last.ret = operate(obj, last.args.a, last.args.b)
    /\ last.call = "CayleyTable::scan" =>
           /\ last.ret.is_associative = is_associative(obj)
           /\ last.ret.is_commutative = is_commutative(obj)
           /\ last.ret.has_left_cancellation = has_left_cancellation(obj)
           /\ last.ret.has_right_cancellation = has_right_cancellation(obj)
           /\ obj.level # "Groupoid" => last.ret.find_identity = find_identity(obj)

C19_Witness ==
    /\ last.call = "CayleyTable::scan"
    /\ obj.level = "Semigroup"
    /\ Cardinality(obj.elements_) > 2
    /\ last.ret.is_associative
    /\ ~last.ret.is_commutative
    /\ ~last.ret.has_left_cancellation
    /\ last.ret.has_right_cancellation
    /\ last.ret.find_identity = LogicError

\* the last call is one of the six queries, with an element outside the carrier
\* (or, for FactorGroup::operate, a set that is not one of the cosets)
OutsideCall ==
    \/ /\ last.call = "Groupoid::operate"
       /\ (last.args.a \notin obj.elements_ \/ last.args.b \notin obj.elements_)
    \/ /\ last.call = "Group::inverse"
       /\ last.args.a \notin obj.elements_
    \/ /\ last.call \in {"ElementOrder::compute", "Centralizer::compute"}
       /\ last.args.element \notin obj.elements_
    \/ /\ last.call = "CayleyTable::lookup"
       /\ (last.args.a \notin cayley.elements_ \/ last.args.b \notin cayley.elements_)
    \/ /\ last.call = "FactorGroup::operate"
       /\ (last.args.coset_a \notin fg.cosets_ \/ last.args.coset_b \notin fg.cosets_)

\* the last call is one of the queries on elements, with elements of the carrier,
\* and returned the value read off the structure as it is now
ValidCallResult ==
    /\ last.call = "Groupoid::operate" =>
           last.err = "" /\ last.ret = obj.operation_[last.args.a, last.args.b]
    /\ last.call = "Group::inverse" =>
           /\ last.err = ""
           /\ obj.operation_[last.args.a, last.ret] = obj.identity_
           /\ obj.operation_[last.ret, last.args.a] = obj.identity_
    /\ last.call = "ElementOrder::compute" =>
           last.err = "" /\ NaivePower(obj, last.args.element, last.ret) = obj.identity_
    /\ last.call = "Centralizer::compute" =>
           /\ last.err = ""
           /\ last.ret = {g \in obj.elements_ :
                             obj.operation_[g, last.args.element]
                                 = obj.operation_[last.args.element, g]}
    /\ last.call = "CayleyTable::lookup" =>
           last.err = "" /\ last.ret = obj.operation_[last.args.a, last.args.b]
    /\ (last.call = "FactorGroup::operate" /\ fg.parent_group_ = obj) =>
           /\ last.err = ""
           /\ Begin(last.args.coset_a) \in last.args.coset_a
           /\ obj.operation_[Begin(last.args.coset_a), Begin(last.args.coset_b)] \in last.ret

\* C20: a query with an element outside the carrier (Groupoid::operate,
\* Group::inverse, ElementOrder::compute, Centralizer::compute,
\* CayleyTable::lookup, FactorGroup::operate with a set that is not one of its
\* cosets) is reported as an element-not-in-domain error for that call only:
\* the call leaves every structure as it was, the caller goes on with the same
\* structures, and every query with valid arguments returns the value the
\* structure determines, whatever calls failed before it.
C20_Recoverable ==
    [][ /\ OutsideCall' =>
               /\ ErrorKind(last'.err) = "ElementNotInDomain"
               /\ UNCHANGED <<elements, op, obj, sub, nsub, fg, cayley>>
        /\ OutsideCall =>
               /\ UNCHANGED <<elements, op, obj, sub, nsub, fg, cayley>>
               /\ Running'
        /\ (last'.call \in Queries /\ ~OutsideCall') => ValidCallResult'
      ]_vars

C20_Witness ==
    /\ last.call = "FactorGroup::operate"
    /\ last.err = ErrInvalidCosets
    /\ fg.parent_group_ = obj
    /\ Cardinality(fg.cosets_) >= 3
    /\ last.args.coset_a \in fg.cosets_
    /\ last.args.coset_b \notin fg.cosets_

\* every element of the carrier S lies in exactly one of the cosets of F and the
\* element-to-coset lookup of F maps it to that coset
MapsEachElementOnce(F, S) ==
    \A x \in S :
        /\ Cardinality({c \in F.cosets_ : x \in c}) = 1
        /\ x \in DOMAIN F.element_to_coset_
        /\ x \in F.element_to_coset_[x]
        /\ F.element_to_coset_[x] \in F.cosets_

\* C21 as written: FactorGroup(group, normalSubgroup) succeeds for every valid
\* Group and every validated NormalSubgroup, the two being independent
\* arguments: no error is raised and afterwards every element of the group's
\* carrier is mapped to exactly one coset.
C21_Original ==
    last.call = "FactorGroup" =>
        /\ last.err = ""
        /\ fg.exists /\ fg.parent_group_ = last.args.group
        /\ MapsEachElementOnce(fg, last.args.group.elements_)

\* the part of C21 that concerns a NormalSubgroup of the group that is passed
C21_OwnParent ==
    (last.call = "FactorGroup" /\ last.args.group = obj) =>
        /\ last.err = ""
        /\ fg.exists /\ fg.parent_group_ = obj
        /\ MapsEachElementOnce(fg, obj.elements_)

\* C22: for a valid Group G and a validated NormalSubgroup N of G the quotient
\* satisfies the group laws: verify_factor_group() returns true; identity() is
\* the set N itself and is a two-sided identity for every coset; inverse(C) is a
\* two-sided inverse of every coset C; operate is associative on all triples of
\* cosets and always returns one of the FactorGroup's own cosets.
C22_QuotientLaws ==
    (last.call = "verify_factor_group" /\ fg.parent_group_ = obj) =>
        LET e == FactorGroup_identity(fg, obj)
            mul(x, y) == FactorGroup_operate(fg, obj, x, y)
            inv(x) == FactorGroup_inverse(fg, obj, x)
        IN  /\ last.ret = "true"
            /\ e = nsub.subset_
            /\ e \in fg.cosets_
            /\ \A c \in fg.cosets_ : mul(e, c) = c /\ mul(c, e) = c
            /\ \A c \in fg.cosets_ :
                   inv(c) \in fg.cosets_ /\ mul(c, inv(c)) = e /\ mul(inv(c), c) = e
            /\ \A a \in fg.cosets_, b \in fg.cosets_ : mul(a, b) \in fg.cosets_
            /\ \A a \in fg.cosets_, b \in fg.cosets_, c \in fg.cosets_ :
                   mul(mul(a, b), c) = mul(a, mul(b, c))

C22_Witness ==
    /\ last.call = "verify_factor_group"
    /\ fg.parent_group_ = obj
    /\ last.ret = "true"
    /\ Cardinality(fg.cosets_) = 3
    /\ Cardinality(nsub.subset_) = 2
    /\ \E c \in fg.cosets_ : FactorGroup_inverse(fg, obj, c) # c

\* C23 as written: two Coset objects of the same parent group compare equal
\* (operator==) exactly when their element sets are equal, whatever
\* representative each was built from; for g' in gH the cosets built from g and
\* from g' on the same side have equal element sets and compare equal.
C23_Original ==
    last.call = "Coset::operator==" =>
        LET a == last.args.a
            b == last.args.b
        IN  /\ a.group_ = b.group_ => (last.ret <=> a.coset_ = b.coset_)
            /\ (a.type_ = b.type_ /\ a.subgroup_ = b.subgroup_
                    /\ b.representative_ \in a.coset_) =>
                   (a.coset_ = b.coset_ /\ last.ret)

\* the part of C23 that concerns two Cosets over the same Subgroup object
C23_SameSubgroupObject ==
    last.call = "Coset::operator==" =>
        LET a == last.args.a
            b == last.args.b
        IN  /\ (a.group_ = b.group_ /\ a.subgroup_ = b.subgroup_) =>
                   (last.ret <=> a.coset_ = b.coset_)
            /\ (a.type_ = b.type_ /\ a.subgroup_ = b.subgroup_
                    /\ b.representative_ \in a.coset_) =>
                   (a.coset_ = b.coset_ /\ last.ret)

\* C24: no mutation of a parent once children are built.  Whatever Subgroup,
\* NormalSubgroup, Coset, FactorGroup or CayleyTable is constructed over a Group
\* G (failed constructions included) and whatever is queried on them, G's
\* carrier, identity and inverse table stay as they are, and so do the subset of
\* an existing Subgroup and the coset set of an existing FactorGroup.
C24_ParentsUnchanged ==
    [][ /\ obj.level = "Group" =>
               /\ obj'.level = "Group"
               /\ obj'.elements_ = obj.elements_
               /\ obj'.operation_ = obj.operation_
               /\ obj'.identity_ = obj.identity_
               /\ obj'.inverse_map_ = obj.inverse_map_
               /\ obj'.inverse_func_ = obj.inverse_func_
        /\ sub.exists => (sub'.exists /\ sub'.subset_ = sub.subset_)
        /\ nsub.exists => (nsub'.exists /\ nsub'.subset_ = nsub.subset_)
        /\ fg.exists => (fg'.exists /\ fg'.cosets_ = fg.cosets_)
      ]_vars

C24_Witness ==
    /\ last.call = "FactorGroup"
    /\ last.err # ""
    /\ obj.level = "Group"
    /\ sub.exists /\ nsub.exists /\ cayley.exists
    /\ Cardinality(sub.subset_) >= 2

\* the first law, in the order closure, associativity, identity, inverses, that
\* the input of Group's constructor violates; "none" if it violates none
FirstViolatedLaw(S, f, e, inv) ==
    IF ~Closed(S, f) THEN "closure"
    ELSE IF ~Associative(S, f) THEN "associativity"
    ELSE IF ~TwoSidedIdentity(S, f, e) THEN "identity"
    ELSE IF \E a \in S : BadInverse(S, f, e, inv, a) THEN "inverses"
    ELSE "none"

\* the law an error kind reports
LawOfKind(kind) ==
    CASE kind = "ClosureViolation" -> "closure"
      [] kind = "NotAssociative" -> "associativity"
      [] kind = "InvalidIdentity" -> "identity"
      [] kind = "InvalidInverse" -> "inverses"
      [] kind = "Ok" -> "none"
      [] OTHER -> "other"

\* C25: a failed construction surfaces the specific violated law, and the laws
\* are checked in the order closure, associativity, identity, inverses: the
\* error Group(carrier, op, e, inverseFn) reports is the one for the first law,
\* in that order, that the input violates, and no later check is performed
\* (inverseFn is never called when an earlier law is violated).
C25_FirstViolatedLaw ==
    last.call = "Group" =>
        LET law == FirstViolatedLaw(elements, op, last.args.identity, last.args.inverse_func)
            n == Len(last.ret.checks)
        IN  /\ LawOfKind(ErrorKind(last.err)) = law
            /\ law # "none" => last.ret.checks[n] = law
            /\ law = "none" => n = 4
            /\ \A i \in 1 .. n :
                   last.ret.checks[i] = <<"closure", "associativity", "identity", "inverses">>[i]
            /\ law \in {"closure", "associativity", "identity"} =>
                   last.ret.inverse_func_calls = 0

C25_Witness ==
    /\ last.call = "Group"
    /\ last.err = ErrNotAssociative
    /\ Closed(elements, op)
    /\ ~Associative(elements, op)
    /\ ~TwoSidedIdentity(elements, op, last.args.identity)
    /\ \E a \in elements :
           BadInverse(elements, op, last.args.identity, last.args.inverse_func, a)
    /\ last.ret.checks = <<"closure", "associativity">>
    /\ last.ret.inverse_func_calls = 0

\* C26: the deriving constructors accept exactly the structures that have the
\* property.  Monoid(semigroup) succeeds exactly when the semigroup has a
\* two-sided identity, and then identity() is that element, the only two-sided
\* identity of the carrier.  Group(monoid) succeeds exactly when every element
\* of the monoid has a two-sided inverse, and then inverse(a) is the unique b
\* with a o b = b o a = identity.
C26_DerivingConstructors ==
    /\ last.call = "Monoid(semigroup)" =>
           /\ last.err = "" <=> \E e \in elements : TwoSidedIdentity(elements, op, e)
           /\ last.err = "" =>
                  /\ obj.level = "Monoid"
                  /\ TwoSidedIdentity(elements, op, obj.identity_)
                  /\ \A e \in elements :
                         TwoSidedIdentity(elements, op, e) => e = obj.identity_
           /\ last.err # "" => (obj.level = "Semigroup" /\ ErrorKind(last.err) = "NoIdentityFound")
    /\ last.call = "Group(monoid)" =>
           LET e == obj.identity_
               invs(a) == {b \in elements : op[a, b] = e /\ op[b, a] = e}
           IN  /\ last.err = "" <=> \A a \in elements : invs(a) # {}
               /\ last.err = "" =>
                      /\ obj.level = "Group"
                      /\ \A a \in elements : invs(a) = {inverse(obj, a)}
               /\ last.err # "" => (obj.level = "Monoid" /\ ErrorKind(last.err) = "InvalidInverse")

C26_Witness ==
    /\ last.call = "Group(monoid)"
    /\ last.err = ""
    /\ obj.level = "Group"
    /\ ~is_abelian(obj)
    /\ \E a \in elements : inverse(obj, a) # a

\* C27 as written: a group is cyclic exactly when exp(G) = |G|: for every valid
\* Group G, GroupExponent::is_cyclic(G) returns the boolean
\* CyclicGroup::is_cyclic(G) returns (an element whose order is |G| exists).
C27_Original ==
    last.call = "GroupExponent" =>
        /\ last.ret.is_cyclic = is_cyclic(obj)
        /\ last.ret.is_cyclic <=>
               \E a \in obj.elements_ :
                   /\ NaivePower(obj, a, Cardinality(obj.elements_)) = obj.identity_
                   /\ \A k \in 1 .. (Cardinality(obj.elements_) - 1) :
                          NaivePower(obj, a, k) # obj.identity_

\* the part of C27 that concerns the abelian groups
C27_Abelian ==
    (last.call = "GroupExponent" /\ is_abelian(obj)) =>
        last.ret.is_cyclic = is_cyclic(obj)

\* (S, f) is a group: a Group can be constructed from them with some identity
\* and some inverse function
Constructible(S, f) ==
    \E e \in Val : \E inv \in InverseFunctions(S, f, e) : GroupError(S, f, e, inv) = ""

\* (S, f) satisfies the group laws, stated on the carrier and the table
IsGroupLaws(S, f) ==
    /\ Closed(S, f)
    /\ Associative(S, f)
    /\ \E e \in S :
           /\ TwoSidedIdentity(S, f, e)
           /\ \A a \in S : \E b \in S : f[a, b] = e /\ f[b, a] = e

\* C28 as written: the one-sided group definitions are equivalent to the
\* standard one: Group::satisfies_alternative_definition(elements, op) and
\* Group::satisfies_right_alternative_definition(elements, op) return true
\* exactly when (elements, op) is a group, that is when a Group can be
\* constructed from them with some identity and inverse function.
C28_Original ==
    last.call = "Group::satisfies_alternative_definition" =>
        /\ last.ret.left <=> Constructible(elements, op)
        /\ last.ret.right <=> Constructible(elements, op)
        /\ Constructible(elements, op) <=> IsGroupLaws(elements, op)

\* the part of C28 that concerns the closed operations
C28_ClosedOperations ==
    (last.call = "Group::satisfies_alternative_definition" /\ Closed(elements, op)) =>
        /\ last.ret.left <=> Constructible(elements, op)
        /\ last.ret.right <=> Constructible(elements, op)
        /\ Constructible(elements, op) <=> IsGroupLaws(elements, op)

\* C29: for a valid Group G and every subset S of values the one-step subgroup
\* criterion (non-empty, contained in G, closed under a o b^-1;
\* verify_subgroup_criterion) and the finite-group criterion (non-empty,
\* contained in G, closed under the operation;
\* verify_finite_subgroup_criterion) give the same boolean.
C29_CriteriaAgree ==
    last.call = "Subgroup::criteria" =>
        /\ last.err = ""
        /\ last.ret.verify_subgroup_criterion \in {"true", "false"}
        /\ (last.ret.verify_subgroup_criterion = "true")
               <=> last.ret.verify_finite_subgroup_criterion
        /\ last.ret.verify_finite_subgroup_criterion <=>
               /\ last.args.subset # {}
               /\ last.args.subset \subseteq obj.elements_
               /\ \A a \in last.args.subset, b \in last.args.subset :
                      obj.operation_[a, b] \in last.args.subset

C29_Witness ==
    /\ last.call = "Subgroup::criteria"
    /\ ~is_abelian(obj)
    /\ Cardinality(last.args.subset) = 3
    /\ last.args.subset \subseteq obj.elements_
    /\ obj.identity_ \in last.args.subset
    /\ \A a \in last.args.subset : obj.operation_[a, a] \in last.args.subset
    /\ last.ret.verify_subgroup_criterion = "false"
    /\ ~last.ret.verify_finite_subgroup_criterion

\* C30: for a valid Group G, Center::compute(G) is the set of the elements that
\* commute with every element of G; it is always a normal subgroup of G
\* (Center::as_subgroup(G) and the NormalSubgroup constructed from it never
\* fail); and Center::is_abelian(G) returns what Group::is_abelian(G) returns.
C30_Center ==
    last.call = "Center::compute" =>
        LET S == obj.elements_
            f == obj.operation_
            Z == last.ret.compute
        IN  /\ Z = {z \in S : \A g \in S : f[z, g] = f[g, z]}
            /\ last.err = ""
            /\ obj.identity_ \in Z
            /\ \A a \in Z, b \in Z : f[a, b] \in Z
            /\ \A g \in S, z \in Z : f[f[g, z], inverse(obj, g)] \in Z
            /\ last.ret.Center_is_abelian = last.ret.Group_is_abelian
            /\ last.ret.Group_is_abelian <=> \A a \in S, b \in S : f[a, b] = f[b, a]

C30_Witness ==
    /\ last.call = "Center::compute"
    /\ last.err = ""
    /\ Cardinality(obj.elements_) = 6
    /\ last.ret.compute = {obj.identity_}
    /\ ~last.ret.Center_is_abelian
    /\ ~last.ret.Group_is_abelian

====
